---- MODULE Spec2Model ----
(***************************************************************************)
(* Model of cmforai's MarkdownGenerator file selection                     *)
(* (src/cmforai/generator.py): _select_files, _apply_general_limits and    *)
(* _estimate_file_tokens.                                                  *)
(*                                                                         *)
(* Strings are modelled as sequences of one-character strings so that path *)
(* normalisation, file-name extraction and wildcard matching are computed. *)
(***************************************************************************)
EXTENDS Integers, Sequences, FiniteSets, TLC

\* config        the generator's GenerationConfig (self.config)
\* files         the argument of the current call of _select_files
\* pc            where the call is: "idle" (no call yet), "important" and
\*               "regular" (in the loop of that name), "done" (returned)
\* func          the function whose loops run
\* pool          the list the loops partition
\* i             1-based position of the running loop in its partition
\* selected, total_tokens   the locals of that name; at "done", selected is
\*               the return value
\* stderr        the lines the call has printed to sys.stderr
\* det           the caller that repeats a call of _select_files: which of
\*               its calls runs or ran last, and what its first call returned
\* project       the ProjectInfo handed to _generate_files_content
\* disk          for each relative path, whether the file can be read
\* lines         the local list of that name in _generate_files_content
\* current_dir   the local of that name in _generate_files_content
\* est           a pair of calls of _estimate_file_tokens: the sizes and, once
\*               the calls returned, the results
\* parts         the local list of that name in generate
\* git_logs_section   the local of that name in generate
\* strip         a call of _remove_comments: its arguments and its result
\* gui           the GUI: its workers, the main loop's queue, the output area
\* scan          a run of ProjectAnalyzer.analyze: the files found, the list
\* cli           a run of cli.main: configuration file, arguments, config
\* git           the repository at the project's root: what the git
\*               invocations of _generate_git_logs meet there
VARIABLES config, files, pc, func, pool, i, selected, total_tokens, stderr,
          det, project, disk, lines, current_dir, parts, git_logs_section,
          est, strip, gui, scan, cli, git

\* the state of the code around the generator
ext == <<strip, gui, scan, cli>>

\* the state outside _select_files, which no step of it touches
aux == <<det, project, disk, lines, current_dir, parts, git_logs_section,
         est, ext, git>>

vars == <<config, files, pc, func, pool, i, selected, total_tokens, stderr,
          aux>>

----------------------------------------------------------------------------
(* Bounds of the model *)

\* longest file list handed to _select_files
MaxLen == 3
\* largest file size (bytes) of a record
MaxSize == 13
\* largest max_tokens cap tried
MaxTokensCap == 4
\* longest file list of a project whose files are rendered
RenderLen == 2
\* longest file list of a project handed to generate
GenLen == 2
\* sizes handed to _estimate_file_tokens are 0..EstMax and 2^53..2^53+EstMax
EstMax == 8
\* largest gitlogs, the number of commits asked for
GitLogsCap == 1
\* most files the walk of ProjectAnalyzer.analyze finds
ScanLen == 3
\* most clicks on Generate Context in a run of the GUI
MaxRequests == 2
\* most pieces a file content handed to _remove_comments is made of
StripLen == 4
\* largest max_files cap tried
MaxFilesCap == 2
\* the max_file_size cap tried
SizeCap == 8

\* Python's None for the Optional[int] fields of GenerationConfig
None == -1

----------------------------------------------------------------------------
(* Python helpers *)

\* truth value of an Optional[int]: None and 0 are both falsy
Truthy(x) == x # None /\ x # 0

\* x in list
InList(x, s) == \E k \in 1..Len(s) : s[k] = x

\* str.split('/') of a character sequence
RECURSIVE SplitSlash(_)
SplitSlash(s) ==
    IF s = <<>> THEN << <<>> >>
    ELSE IF Head(s) = "/" THEN << <<>> >> \o SplitSlash(Tail(s))
    ELSE LET r == SplitSlash(Tail(s))
         IN  << <<Head(s)>> \o Head(r) >> \o Tail(r)

\* '/'.join(parts)
RECURSIVE JoinSlash(_)
JoinSlash(comps) ==
    IF comps = <<>> THEN <<>>
    ELSE IF Len(comps) = 1 THEN comps[1]
    ELSE comps[1] \o <<"/">> \o JoinSlash(Tail(comps))

\* pathlib.Path(f).as_posix() on a POSIX host: empty and "." components are
\* dropped (".." is kept), a leading "/" is kept, the empty path is ".".
\* pathlib also keeps a leading "//"; no entry of the model starts with "/".
AsPosix(s) ==
    LET comps == SelectSeq(SplitSlash(s), LAMBDA c : c # <<>> /\ c # <<".">>)
        root  == IF s # <<>> /\ Head(s) = "/" THEN <<"/">> ELSE <<>>
    IN  IF comps = <<>> /\ root = <<>> THEN <<".">>
        ELSE root \o JoinSlash(comps)

\* FileInfo.path.name: the last component of the file's path
PathName(f) ==
    LET comps == SplitSlash(f.relative_path) IN comps[Len(comps)]

----------------------------------------------------------------------------
(* Inputs *)

p_a  == <<"a">>
p_da == <<"d", "/", "a">>
p_db == <<"d", "/", "b">>

\* relative paths of the project snapshot, unique, in list order; snapshots
\* longer than three files continue with generated names
ProjectPath(k) ==
    IF k = 1 THEN p_a ELSE IF k = 2 THEN p_da ELSE IF k = 3 THEN p_db
    ELSE <<"d", "/", "c", ToString(k)>>

Sizes == {8, MaxSize}

\* FileInfo records (the fields read by the selector)
FileInfo(k) ==
    [relative_path : {ProjectPath(k)}, size : Sizes, is_important : BOOLEAN]

RECURSIVE FileListsOfLen(_)
FileListsOfLen(n) ==
    IF n = 0 THEN { <<>> }
    ELSE { Append(s, f) : s \in FileListsOfLen(n - 1), f \in FileInfo(n) }

FileLists == UNION { FileListsOfLen(n) : n \in 0..MaxLen }

\* entries of files_to_analyze
e_a    == <<"a">>
e_dota == <<".", "/", "a">>
e_db   == <<"d", "/", "b">>
e_q    == <<"d", "/", "?">>
e_z    == <<"z">>

\* files_to_analyze: None and [] are both falsy at the only place the field is
\* read, so <<>> stands for both
FilesToAnalyze ==
    { <<>>, <<e_a>>, <<e_z>>, <<e_dota, e_db>>, <<e_q, e_db>> }

\* GenerationConfig (the fields read by the selector)
GenerationConfig ==
    [max_tokens : {None, 0, 2, MaxTokensCap},
     max_files : {None} \cup (0..MaxFilesCap),
     max_file_size : {None, 0, SizeCap},
     compress_large_files : BOOLEAN,
     files_to_analyze : FilesToAnalyze]

----------------------------------------------------------------------------
(* _estimate_file_tokens *)

\* int(size * 0.25): truncation of size/4, which is the floor for size >= 0
\* A non-negative integer hi * 2^53 + lo with lo far below 2^53: a file size
\* as st_size reports it.  Python integers are unbounded and a double has a
\* 53-bit significand, so the sizes are written relative to 2^53.
BigInt(hi, lo) == [hi |-> hi, lo |-> lo]

\* float(size), the conversion int * float starts with: exact below 2^53;
\* from 2^53 to 2^54 doubles are the even integers and an odd size goes to the
\* neighbour whose significand is even (round half to even)
ToDouble(sz) ==
    IF sz.hi = 0 \/ sz.lo % 2 = 0 THEN sz
    ELSE IF (sz.lo + 1) % 4 = 0 THEN BigInt(sz.hi, sz.lo + 1)
    ELSE BigInt(sz.hi, sz.lo - 1)

\* x * TOKENS_PER_CHAR with TOKENS_PER_CHAR = 0.25, a power of two: the
\* product is exact, hi * 2^51 + quarters / 4
TimesTokensPerChar(x) == [hi |-> x.hi, quarters |-> x.lo]

\* int(y) of a non-negative double: the fraction is cut off; the result is
\* hi * 2^51 + lo
IntOf(y) == [hi |-> y.hi, lo |-> y.quarters \div 4]

\* int(size * self.TOKENS_PER_CHAR); the result counts hi in units of 2^51
EstimateTokens(sz) == IntOf(TimesTokensPerChar(ToDouble(sz)))

\* _estimate_file_tokens for the sizes of the selector's files, all below 2^53
EstimateFileTokens(f) == EstimateTokens(BigInt(0, f.size)).lo

----------------------------------------------------------------------------
(* Loop bodies.  A loop state is [selected, total_tokens, brk]; brk is TRUE *)
(* when the iteration left the loop with break.                             *)

LoopState(sel, tot, b) == [selected |-> sel, total_tokens |-> tot, brk |-> b]

\* SelectImportantBody with an oversized file skipped whatever
\* compress_large_files is
SelectImportantBody_SkipOversize(cfg, st, f) ==
    IF Truthy(cfg.max_files) /\ Len(st.selected) >= cfg.max_files
    THEN LoopState(st.selected, st.total_tokens, TRUE)
    ELSE IF Truthy(cfg.max_file_size) /\ f.size > cfg.max_file_size
    THEN LoopState(st.selected, st.total_tokens, FALSE)
    ELSE LET file_tokens == EstimateFileTokens(f) IN
         IF Truthy(cfg.max_tokens)
            /\ st.total_tokens + file_tokens > cfg.max_tokens
         THEN IF cfg.compress_large_files
              THEN LoopState(Append(st.selected, f),
                             st.total_tokens + (file_tokens \div 3), FALSE)
              ELSE LoopState(st.selected, st.total_tokens, FALSE)
         ELSE LoopState(Append(st.selected, f),
                        st.total_tokens + file_tokens, FALSE)

\* SelectImportantBody without the continue after the compressed inclusion:
\* the record goes on to the append at the end of the body
SelectImportantBody_AppendsTwice(cfg, st, f) ==
    IF Truthy(cfg.max_files) /\ Len(st.selected) >= cfg.max_files
    THEN LoopState(st.selected, st.total_tokens, TRUE)
    ELSE IF Truthy(cfg.max_file_size) /\ f.size > cfg.max_file_size
            /\ ~cfg.compress_large_files
    THEN LoopState(st.selected, st.total_tokens, FALSE)
    ELSE LET file_tokens == EstimateFileTokens(f) IN
         IF Truthy(cfg.max_tokens)
            /\ st.total_tokens + file_tokens > cfg.max_tokens
         THEN IF cfg.compress_large_files
              THEN LoopState(Append(Append(st.selected, f), f),
                             st.total_tokens + (file_tokens \div 3), FALSE)
              ELSE LoopState(st.selected, st.total_tokens, FALSE)
         ELSE LoopState(Append(st.selected, f),
                        st.total_tokens + file_tokens, FALSE)

\* _select_files, body of "for file_info in important_files"
SelectImportantBody(cfg, st, f) ==
    IF Truthy(cfg.max_files) /\ Len(st.selected) >= cfg.max_files
    THEN LoopState(st.selected, st.total_tokens, TRUE)
    ELSE IF Truthy(cfg.max_file_size) /\ f.size > cfg.max_file_size
            /\ ~cfg.compress_large_files
    THEN LoopState(st.selected, st.total_tokens, FALSE)
    ELSE LET file_tokens == EstimateFileTokens(f) IN
         IF Truthy(cfg.max_tokens)
            /\ st.total_tokens + file_tokens > cfg.max_tokens
         THEN IF cfg.compress_large_files
              THEN LoopState(Append(st.selected, f),
                             st.total_tokens + (file_tokens \div 3), FALSE)
              ELSE LoopState(st.selected, st.total_tokens, FALSE)
         ELSE LoopState(Append(st.selected, f),
                        st.total_tokens + file_tokens, FALSE)

\* _apply_general_limits, body of "for file_info in important_files"
LimitsImportantBody(cfg, st, f) ==
    IF Truthy(cfg.max_files) /\ Len(st.selected) >= cfg.max_files
    THEN LoopState(st.selected, st.total_tokens, TRUE)
    ELSE IF Truthy(cfg.max_file_size) /\ f.size > cfg.max_file_size
            /\ ~cfg.compress_large_files
    THEN LoopState(st.selected, st.total_tokens, FALSE)
    ELSE LET file_tokens == EstimateFileTokens(f) IN
         IF Truthy(cfg.max_tokens)
            /\ st.total_tokens + file_tokens > cfg.max_tokens
         THEN IF cfg.compress_large_files
              THEN LoopState(Append(st.selected, f),
                             st.total_tokens + (file_tokens \div 3), FALSE)
              ELSE LoopState(st.selected, st.total_tokens, TRUE)
         ELSE LoopState(Append(st.selected, f),
                        st.total_tokens + file_tokens, FALSE)

\* RegularBody with selected.insert(0, file_info) in place of append
RegularBody_Prepend(cfg, st, f) ==
    IF Truthy(cfg.max_files) /\ Len(st.selected) >= cfg.max_files
    THEN LoopState(st.selected, st.total_tokens, TRUE)
    ELSE IF Truthy(cfg.max_file_size) /\ f.size > cfg.max_file_size
    THEN LoopState(st.selected, st.total_tokens, FALSE)
    ELSE LET file_tokens == EstimateFileTokens(f) IN
         IF Truthy(cfg.max_tokens)
            /\ st.total_tokens + file_tokens > cfg.max_tokens
         THEN LoopState(st.selected, st.total_tokens, TRUE)
         ELSE LoopState(<<f>> \o st.selected,
                        st.total_tokens + file_tokens, FALSE)

\* body of "for file_info in regular_files" (the same in both functions)
RegularBody(cfg, st, f) ==
    IF Truthy(cfg.max_files) /\ Len(st.selected) >= cfg.max_files
    THEN LoopState(st.selected, st.total_tokens, TRUE)
    ELSE IF Truthy(cfg.max_file_size) /\ f.size > cfg.max_file_size
    THEN LoopState(st.selected, st.total_tokens, FALSE)
    ELSE LET file_tokens == EstimateFileTokens(f) IN
         IF Truthy(cfg.max_tokens)
            /\ st.total_tokens + file_tokens > cfg.max_tokens
         THEN LoopState(st.selected, st.total_tokens, TRUE)
         ELSE LoopState(Append(st.selected, f),
                        st.total_tokens + file_tokens, FALSE)

ImportantBody(fn, cfg, st, f) ==
    IF fn = "_select_files" THEN SelectImportantBody(cfg, st, f)
    ELSE LimitsImportantBody(cfg, st, f)

\* the two partitions, in input order (list comprehensions keep the order)
ImportantFiles(fs) == SelectSeq(fs, LAMBDA f : f.is_important)
RegularFiles(fs) == SelectSeq(fs, LAMBDA f : ~f.is_important)

\* "for file_info in important_files: ..." run to its end from loop state st
RECURSIVE ImportantLoop(_, _, _, _)
ImportantLoop(fn, cfg, st, fs) ==
    IF fs = <<>> THEN st
    ELSE LET n == ImportantBody(fn, cfg, st, Head(fs))
         IN  IF n.brk THEN n ELSE ImportantLoop(fn, cfg, n, Tail(fs))

\* "for file_info in regular_files: ..." run to its end from loop state st
RECURSIVE RegularLoop(_, _, _)
RegularLoop(cfg, st, fs) ==
    IF fs = <<>> THEN st
    ELSE LET n == RegularBody(cfg, st, Head(fs))
         IN  IF n.brk THEN n ELSE RegularLoop(cfg, n, Tail(fs))

\* the value returned by the two loops of function fn run on the list fs
Allocate(fn, cfg, fs) ==
    LET a == ImportantLoop(fn, cfg, LoopState(<<>>, 0, FALSE),
                           ImportantFiles(fs))
    IN  RegularLoop(cfg, LoopState(a.selected, a.total_tokens, FALSE),
                    RegularFiles(fs)).selected

----------------------------------------------------------------------------
(* Explicit-list mode, _select_files lines 537-550 *)

SpecifiedPaths(cfg) ==
    [k \in 1..Len(cfg.files_to_analyze) |-> AsPosix(cfg.files_to_analyze[k])]

Matches(cfg, f) ==
    \/ InList(f.relative_path, SpecifiedPaths(cfg))
    \/ InList(PathName(f), SpecifiedPaths(cfg))

\* FilesToInclude with the filter dropped
FilesToInclude_Unfiltered(cfg, fs) == fs

FilesToInclude(cfg, fs) == SelectSeq(fs, LAMBDA f : Matches(cfg, f))

ExplicitMode(cfg) == cfg.files_to_analyze # <<>>

\* CandidatePool without the fallback to the full list
CandidatePool_NoFallback(cfg, fs) ==
    IF ~ExplicitMode(cfg) THEN fs ELSE FilesToInclude(cfg, fs)

\* CandidatePool that, when nothing matches, falls back to records made up
\* for the specified paths
CandidatePool_FromSpecified(cfg, fs) ==
    IF ~ExplicitMode(cfg) THEN fs
    ELSE IF FilesToInclude(cfg, fs) = <<>>
    THEN [k \in 1..Len(cfg.files_to_analyze) |->
            [relative_path |-> SpecifiedPaths(cfg)[k], size |-> 0,
             is_important |-> FALSE]]
    ELSE FilesToInclude(cfg, fs)

\* the list handed to the allocation loops
CandidatePool(cfg, fs) ==
    IF ~ExplicitMode(cfg) THEN fs
    ELSE IF FilesToInclude(cfg, fs) = <<>> THEN fs
    ELSE FilesToInclude(cfg, fs)

\* the line printed to sys.stderr when nothing matches
Warning(cfg) == [text |-> "Warning: No files found matching patterns",
                 patterns |-> SpecifiedPaths(cfg)]

----------------------------------------------------------------------------
(* State machine *)

\* no call of _select_files has been made
NoCall == [files |-> <<>>, result |-> <<>>]

\* a generator that has not been called: no locals
Fresh ==
    /\ files = <<>>
    /\ pc = "idle"
    /\ func = "none"
    /\ pool = <<>>
    /\ i = 0
    /\ selected = <<>>
    /\ total_tokens = 0
    /\ stderr = <<>>

DetFresh == det = [stage |-> "none", between |-> FALSE, first |-> NoCall]

\* current_dir before it is assigned, and Python's None as it is assigned
NoDir == <<"None">>

\* _generate_files_content has not been called
RenderFresh ==
    /\ project = [files |-> <<>>]
    /\ disk = <<>>
    /\ lines = <<>>
    /\ current_dir = NoDir

\* nothing around the generator has run
ExtFresh ==
    /\ strip = [stage |-> "none"]
    /\ gui = [stage |-> "none"]
    /\ scan = [stage |-> "none"]
    /\ cli = [stage |-> "none"]

\* generate has not been called
GenFresh ==
    /\ parts = <<>>
    /\ git_logs_section = <<>>
    /\ git = [stage |-> "none"]
    /\ est = [stage |-> "none"]

Init ==
    /\ config \in GenerationConfig
    /\ Fresh
    /\ DetFresh
    /\ RenderFresh
    /\ GenFresh
    /\ ExtFresh

\* Enter with total_tokens kept from the call before (a counter held on the
\* instance and not reset)
Enter_KeepsTotal(fs) ==
    /\ pc = "idle"
    /\ files' = fs
    /\ selected' = <<>>
    /\ total_tokens' = total_tokens
    /\ func' = IF ExplicitMode(config) THEN "_apply_general_limits"
               ELSE "_select_files"
    /\ pool' = CandidatePool(config, fs)
    /\ stderr' = IF ExplicitMode(config) /\ FilesToInclude(config, fs) = <<>>
                 THEN <<Warning(config)>>
                 ELSE <<>>
    /\ i' = 1
    /\ pc' = "important"
    /\ UNCHANGED config

\* _select_files is entered with the list fs: lines 533-554, or 533-550 and
\* 1132-1137
Enter(fs) ==
    /\ pc = "idle"
    /\ files' = fs
    /\ selected' = <<>>
    /\ total_tokens' = 0
    /\ func' = IF ExplicitMode(config) THEN "_apply_general_limits"
               ELSE "_select_files"
    /\ pool' = CandidatePool(config, fs)
    /\ stderr' = IF ExplicitMode(config) /\ FilesToInclude(config, fs) = <<>>
                 THEN <<Warning(config)>>
                 ELSE <<>>
    /\ i' = 1
    /\ pc' = "important"
    /\ UNCHANGED config

\* _select_files is called
Call(fs) == Enter(fs) /\ UNCHANGED aux

\* one iteration of the loop over important_files
ImportantStep ==
    /\ pc = "important"
    /\ LET important_files == ImportantFiles(pool) IN
       IF i > Len(important_files)
       THEN /\ pc' = "regular"
            /\ i' = 1
            /\ UNCHANGED <<selected, total_tokens>>
       ELSE LET st == ImportantBody(func, config,
                          LoopState(selected, total_tokens, FALSE),
                          important_files[i])
            IN  /\ selected' = st.selected
                /\ total_tokens' = st.total_tokens
                /\ IF st.brk THEN pc' = "regular" /\ i' = 1
                   ELSE pc' = "important" /\ i' = i + 1
    /\ UNCHANGED <<config, files, func, pool, stderr, aux>>

\* one iteration of the loop over regular_files
RegularStep ==
    /\ pc = "regular"
    /\ LET regular_files == RegularFiles(pool) IN
       IF i > Len(regular_files)
       THEN /\ pc' = "done"
            /\ i' = 0
            /\ UNCHANGED <<selected, total_tokens>>
       ELSE LET st == RegularBody(config,
                          LoopState(selected, total_tokens, FALSE),
                          regular_files[i])
            IN  /\ selected' = st.selected
                /\ total_tokens' = st.total_tokens
                /\ IF st.brk THEN pc' = "done" /\ i' = 0
                   ELSE pc' = "regular" /\ i' = i + 1
    /\ UNCHANGED <<config, files, func, pool, stderr, aux>>

\* the caller has taken the return value: the locals of the call are gone and
\* the generator is as it was constructed (it keeps nothing but its config)
Return ==
    /\ pc = "done"
    /\ pc' = "idle"
    /\ files' = <<>>
    /\ func' = "none"
    /\ pool' = <<>>
    /\ i' = 0
    /\ selected' = <<>>
    /\ total_tokens' = 0
    /\ stderr' = <<>>
    /\ UNCHANGED <<config, aux>>

Next ==
    \/ \E fs \in FileLists : Call(fs)
    \/ ImportantStep
    \/ RegularStep
    \/ Return

Spec == Init /\ [][Next]_vars

----------------------------------------------------------------------------
(* A caller that calls _select_files, possibly makes another call, and then *)
(* repeats its first call on the same generator                            *)

\* configurations of the repeated-call specification
DetConfigs ==
    [max_tokens : {None, 2},
     max_files : {None, 1},
     max_file_size : {None, SizeCap},
     compress_large_files : BOOLEAN,
     files_to_analyze : {<<>>, <<e_a>>}]

\* the file lists of the call made between the first call and its repetition
OtherLists ==
    { <<>>,
      <<[relative_path |-> p_a, size |-> MaxSize, is_important |-> TRUE]>>,
      <<[relative_path |-> p_a, size |-> MaxSize, is_important |-> FALSE]>> }

DetInit ==
    /\ config \in DetConfigs
    /\ Fresh
    /\ DetFresh
    /\ RenderFresh
    /\ GenFresh
    /\ ExtFresh

\* the first call, on a generator just constructed
DetFirstCall(fs) ==
    /\ det.stage = "none"
    /\ Enter(fs)
    /\ det' = [det EXCEPT !.stage = "first"]
    /\ UNCHANGED <<project, disk, lines, current_dir, parts,
                   git_logs_section, est, ext, git>>

\* another call on the same generator
DetOtherCall(fs) ==
    /\ det.stage = "first"
    /\ Enter(fs)
    /\ det' = [det EXCEPT !.stage = "other", !.between = TRUE]
    /\ UNCHANGED <<project, disk, lines, current_dir, parts,
                   git_logs_section, est, ext, git>>

\* the first call again: same generator, same file list
DetRepeatCall ==
    /\ det.stage \in {"first", "other"}
    /\ Enter(det.first.files)
    /\ det' = [det EXCEPT !.stage = "repeat"]
    /\ UNCHANGED <<project, disk, lines, current_dir, parts,
                   git_logs_section, est, ext, git>>

\* the caller takes the return value; nothing is reset on its behalf
DetReturn ==
    /\ pc = "done"
    /\ pc' = "idle"
    /\ det' = IF det.stage = "first"
              THEN [det EXCEPT !.first = [files |-> files,
                                          result |-> selected]]
              ELSE det
    /\ UNCHANGED <<config, files, func, pool, i, selected, total_tokens,
                   stderr, project, disk, lines, current_dir, parts,
                   git_logs_section, est, ext, git>>

DetNext ==
    \/ \E fs \in FileLists : DetFirstCall(fs)
    \/ \E fs \in OtherLists : DetOtherCall(fs)
    \/ DetRepeatCall
    \/ ImportantStep
    \/ RegularStep
    \/ DetReturn

DetSpec == DetInit /\ [][DetNext]_vars

----------------------------------------------------------------------------
(* _generate_files_content and _generate_file_content *)

\* str(Path(relative_path).parent), with '.' replaced by '/' (lines 513-515)
FileDir(f) ==
    LET comps == SplitSlash(f.relative_path)
        parent == SubSeq(comps, 1, Len(comps) - 1)
    IN  IF parent = <<>> THEN <<"/">> ELSE JoinSlash(parent)

\* _get_importance_stars
ImportanceStars(f) ==
    IF f.priority >= 15 THEN 3
    ELSE IF f.priority >= 10 THEN 2
    ELSE IF f.is_important THEN 1
    ELSE 0

\* GenerateFileContent with a failed read swallowed: an empty code block
GenerateFileContent_SilentError(cfg, dsk, f) ==
    [kind |-> "file",
     path |-> f.relative_path,
     stars |-> ImportanceStars(f),
     body |-> IF dsk[f.relative_path].readable
              THEN [kind |-> "code",
                    lang_tag |-> IF f.language # "unknown" THEN f.language
                                 ELSE "",
                    nlines |-> dsk[f.relative_path].nlines,
                    stripped |-> ~cfg.include_comments]
              ELSE [kind |-> "code",
                    lang_tag |-> IF f.language # "unknown" THEN f.language
                                 ELSE "",
                    nlines |-> 0,
                    stripped |-> ~cfg.include_comments]]

\* _generate_file_content: the header and, in a code block, the content read
\* from disk (its comments stripped when include_comments is false), or the
\* "*Error reading file: ...*" line when open or read raises.  The content
\* is represented by its number of lines.  The "*Purpose: ...*" header line
\* is written for important files of more than 50 lines only.
GenerateFileContent(cfg, dsk, f) ==
    [kind |-> "file",
     path |-> f.relative_path,
     stars |-> ImportanceStars(f),
     body |-> IF dsk[f.relative_path].readable
              THEN [kind |-> "code",
                    lang_tag |-> IF f.language # "unknown" THEN f.language
                                 ELSE "",
                    nlines |-> dsk[f.relative_path].nlines,
                    stripped |-> ~cfg.include_comments]
              ELSE [kind |-> "error"]]

\* LoopItems with the file content appended only under a new directory
\* header
LoopItems_OnlyOnDirChange(cfg, dsk, cur, f) ==
    IF FileDir(f) # cur
    THEN (IF cur # NoDir THEN <<[kind |-> "blank"]>> ELSE <<>>)
         \o <<[kind |-> "dir", dir |-> FileDir(f)]>>
         \o <<GenerateFileContent(cfg, dsk, f), [kind |-> "separator"]>>
    ELSE <<>>

\* what one iteration of "for file_info in files_to_include" appends to lines
\* when current_dir is cur (lines 513-527)
LoopItems(cfg, dsk, cur, f) ==
    (IF FileDir(f) # cur
     THEN (IF cur # NoDir THEN <<[kind |-> "blank"]>> ELSE <<>>)
          \o <<[kind |-> "dir", dir |-> FileDir(f)]>>
     ELSE <<>>)
    \o <<GenerateFileContent(cfg, dsk, f), [kind |-> "separator"]>>

\* number of lines of the content of a file of the given size
LinesOfSize(sz) == IF sz > SizeCap THEN 3 ELSE 1

\* relative paths the k-th file of a rendered project may have: the second
\* file is in the directory of the first or at the root
RenderPaths(k) ==
    IF k = 1 THEN {p_da} ELSE IF k = 2 THEN {p_db, p_a}
    ELSE {ProjectPath(k + 1)}

\* FileInfo records of a rendered project
RenderFileInfo(k) ==
    { [relative_path |-> p, size |-> sz, is_important |-> imp,
       lines |-> LinesOfSize(sz), language |-> "python",
       priority |-> IF imp THEN 10 ELSE 0] :
         p \in RenderPaths(k), sz \in Sizes, imp \in BOOLEAN }

RECURSIVE RenderListsOfLen(_)
RenderListsOfLen(n) ==
    IF n = 0 THEN { <<>> }
    ELSE { Append(s, f) : s \in RenderListsOfLen(n - 1),
                          f \in RenderFileInfo(n) }

RenderLists == UNION { RenderListsOfLen(n) : n \in 0..RenderLen }

\* the files on disk when the project fs is rendered: each is readable or
\* not, and has the number of lines the analyzer counted
Disks(fs) ==
    { [p \in { fs[k].relative_path : k \in 1..Len(fs) } |->
         [readable |-> r[p],
          nlines |-> fs[CHOOSE k \in 1..Len(fs) :
                             fs[k].relative_path = p].lines] ] :
      r \in [ { fs[k].relative_path : k \in 1..Len(fs) } -> BOOLEAN ] }

\* configurations of the rendering specification
RenderConfigs ==
    [max_tokens : {None, 2},
     max_files : {None},
     max_file_size : {None, SizeCap},
     max_lines_per_file : {None, 2},
     compress_large_files : BOOLEAN,
     include_comments : BOOLEAN,
     files_to_analyze : {<<>>}]

FilesInit ==
    /\ config \in RenderConfigs
    /\ Fresh
    /\ DetFresh
    /\ project \in [files : RenderLists]
    /\ disk \in Disks(project.files)
    /\ lines = <<>>
    /\ current_dir = NoDir
    /\ GenFresh
    /\ ExtFresh

\* _generate_files_content is called: lines 506-511, the call of
\* _select_files entered
GenerateFilesContent ==
    /\ lines = <<>>
    /\ Enter(project.files)
    /\ lines' = <<[kind |-> "title"]>>
    /\ current_dir' = NoDir
    /\ UNCHANGED <<det, project, disk, parts, git_logs_section, est, ext, git>>

\* one iteration of "for file_info in files_to_include", or the return of
\* "\n".join(lines) when the list is exhausted; i counts the files rendered
RenderStep ==
    /\ pc \in {"done", "render"}
    /\ lines # <<>>
    /\ IF i < Len(selected)
       THEN /\ lines' = lines \o LoopItems(config, disk, current_dir,
                                            selected[i + 1])
            /\ current_dir' = FileDir(selected[i + 1])
            /\ i' = i + 1
            /\ pc' = "render"
       ELSE /\ pc' = "joined"
            /\ UNCHANGED <<lines, current_dir, i>>
    /\ UNCHANGED <<config, files, func, pool, selected, total_tokens, stderr,
                   det, project, disk, parts, git_logs_section, est, ext, git>>

FilesNext ==
    \/ GenerateFilesContent
    \/ ImportantStep
    \/ RegularStep
    \/ RenderStep

FilesSpec == FilesInit /\ [][FilesNext]_vars

----------------------------------------------------------------------------
(* generate and the section builders it calls *)

UpperCase == <<"A", "B", "C", "D", "E", "F", "G", "H", "I", "J", "K", "L", "M", "N", "O", "P", "Q", "R", "S", "T", "U", "V", "W", "X", "Y", "Z">>
LowerCase == <<"a", "b", "c", "d", "e", "f", "g", "h", "i", "j", "k", "l", "m", "n", "o", "p", "q", "r", "s", "t", "u", "v", "w", "x", "y", "z">>

\* str.lower()
Lower(s) ==
    [k \in 1..Len(s) |->
        IF \E n \in 1..Len(UpperCase) : UpperCase[n] = s[k]
        THEN LowerCase[CHOOSE n \in 1..Len(UpperCase) : UpperCase[n] = s[k]]
        ELSE s[k]]

\* sub in s
Contains(s, sub) ==
    \E k \in 1..(Len(s) - Len(sub) + 1) : SubSeq(s, k, k + Len(sub) - 1) = sub

\* the if/elif chain of _group_by_themes, in order: the theme, whether the
\* words are looked for in path_lower, in name_lower, or compared with it
ThemeRules ==
    << [theme |-> "authentication", on |-> "path",
        words |-> {<<"a", "u", "t", "h">>, <<"l", "o", "g", "i", "n">>, <<"j", "w", "t">>}],
       [theme |-> "api", on |-> "path",
        words |-> {<<"a", "p", "i">>, <<"r", "o", "u", "t", "e", "r">>, <<"r", "o", "u", "t", "e">>}],
       [theme |-> "database", on |-> "path",
        words |-> {<<"d", "b">>, <<"d", "a", "t", "a", "b", "a", "s", "e">>, <<"m", "o", "d", "e", "l">>, <<"s", "c", "h", "e", "m", "a">>}],
       [theme |-> "websocket", on |-> "path",
        words |-> {<<"w", "e", "b", "s", "o", "c", "k", "e", "t">>, <<"w", "s">>}],
       [theme |-> "chat", on |-> "path",
        words |-> {<<"c", "h", "a", "t">>, <<"m", "e", "s", "s", "a", "g", "e">>}],
       [theme |-> "config", on |-> "name",
        words |-> {<<"c", "o", "n", "f", "i", "g">>, <<"s", "e", "t", "t", "i", "n", "g">>}],
       [theme |-> "utils", on |-> "path",
        words |-> {<<"u", "t", "i", "l">>, <<"h", "e", "l", "p", "e", "r">>, <<"c", "o", "m", "m", "o", "n">>}],
       [theme |-> "tests", on |-> "path",
        words |-> {<<"t", "e", "s", "t">>}],
       [theme |-> "main", on |-> "name_eq",
        words |-> {<<"m", "a", "i", "n", ".", "p", "y">>, <<"a", "p", "p", ".", "p", "y">>, <<"r", "u", "n", ".", "p", "y">>}] >>

\* the keys of the themes dict, in insertion order
ThemeOrder ==
    <<"authentication", "api", "database", "websocket", "chat", "config",
      "utils", "tests", "main", "other">>

RuleApplies(r, f) ==
    LET path_lower == Lower(f.relative_path)
        name_lower == Lower(PathName(f))
    IN  IF r.on = "path" THEN \E w \in r.words : Contains(path_lower, w)
        ELSE IF r.on = "name" THEN \E w \in r.words : Contains(name_lower, w)
        ELSE name_lower \in r.words

\* the theme _group_by_themes files the record f under
ThemeOf(f) ==
    IF \E n \in 1..Len(ThemeRules) : RuleApplies(ThemeRules[n], f)
    THEN ThemeRules[CHOOSE n \in 1..Len(ThemeRules) :
                       /\ RuleApplies(ThemeRules[n], f)
                       /\ \A m \in 1..(n - 1) : ~RuleApplies(ThemeRules[m], f)
                   ].theme
    ELSE "other"

\* _group_by_themes: new lists, one for each theme that has files
GroupByThemes(fs) ==
    LET used == { ThemeOf(fs[k]) : k \in 1..Len(fs) }
    IN  [t \in used |-> SelectSeq(fs, LAMBDA f : ThemeOf(f) = t)]

\* the sort key (priority, lines) of the two in-place sorts, compared as tuples
KeyGreater(a, b) ==
    \/ a.priority > b.priority
    \/ a.priority = b.priority /\ a.lines > b.lines

\* list.sort(key=..., reverse=True): descending and stable
RECURSIVE SortDesc(_)
SortDesc(s) ==
    IF s = <<>> THEN <<>>
    ELSE LET x == s[Len(s)]
             r == SortDesc(SubSeq(s, 1, Len(s) - 1))
             n == Cardinality({k \in 1..Len(r) : ~KeyGreater(x, r[k])})
         IN  SubSeq(r, 1, n) \o <<x>> \o SubSeq(r, n + 1, Len(r))

\* the list objects a section builder holds: the project's own list under
\* "files" and the lists the builder creates, under their names; sorting the
\* object under ref in place
SortInPlace(store, ref) == [store EXCEPT ![ref] = SortDesc(store[ref])]

RECURSIVE SortAllInPlace(_, _)
SortAllInPlace(store, refs) ==
    IF refs = {} THEN store
    ELSE LET r == CHOOSE x \in refs : TRUE
         IN  SortAllInPlace(SortInPlace(store, r), refs \ {r})

\* CoreFilesRef when core_files is bound to project_info.files itself
CoreFilesRef_Alias == "files"

\* the list object core_files.sort works on: the list the comprehension of
\* lines 259-261 creates
CoreFilesRef == "core_files"

\* _generate_project_roadmap: the first five core files of the section, and
\* the project's list as the call leaves it
ProjectRoadmap(pr) ==
    LET core == SelectSeq(pr.files,
                    LAMBDA f : /\ f.is_important /\ f.language = "python"
                               /\ f.priority >= 10 /\ f.lines > 50)
        store == SortInPlace([n \in {"files", "core_files"} |->
                                 IF n = CoreFilesRef THEN
                                     (IF n = "files" THEN pr.files ELSE core)
                                 ELSE IF n = "files" THEN pr.files
                                 ELSE <<>>],
                             CoreFilesRef)
        sorted == store[CoreFilesRef]
    IN  [section |-> [kind |-> "roadmap",
                      core_files |-> [k \in 1..(IF Len(sorted) < 5
                                                 THEN Len(sorted) ELSE 5) |->
                                         sorted[k].relative_path]],
         files |-> store["files"]]

\* _generate_thematic_components: for each theme in dict order its first ten
\* files after the in-place sort, and the project's list as the call leaves it
ThematicComponents(pr) ==
    LET themes == GroupByThemes(pr.files)
        store == SortAllInPlace(
                     [n \in {"files"} \cup DOMAIN themes |->
                         IF n = "files" THEN pr.files ELSE themes[n]],
                     DOMAIN themes)
        order == SelectSeq(ThemeOrder, LAMBDA t : t \in DOMAIN themes)
    IN  [section |-> [kind |-> "thematic",
                      themes |-> [k \in 1..Len(order) |->
                          [theme |-> order[k],
                           files |-> [j \in 1..(IF Len(store[order[k]]) < 10
                                                 THEN Len(store[order[k]])
                                                 ELSE 10) |->
                                         store[order[k]][j].relative_path]]]],
         files |-> store["files"]]

\* _select_files run to its return
SelectFiles(cfg, fs) ==
    Allocate(IF ExplicitMode(cfg) THEN "_apply_general_limits"
             ELSE "_select_files", cfg, CandidatePool(cfg, fs))

\* the loop of _generate_files_content run over the list sel from current_dir
\* cur
RECURSIVE FilesLoop(_, _, _, _)
FilesLoop(cfg, dsk, cur, sel) ==
    IF sel = <<>> THEN <<>>
    ELSE LoopItems(cfg, dsk, cur, Head(sel))
         \o FilesLoop(cfg, dsk, FileDir(Head(sel)), Tail(sel))

\* _generate_files_content run to its return
FilesContent(cfg, dsk, fs) ==
    <<[kind |-> "title"]>> \o FilesLoop(cfg, dsk, NoDir, SelectFiles(cfg, fs))

p_Db == <<"D", "b">>

\* relative paths the k-th file of a generated project may have
GenPaths(k) ==
    IF k = 1 THEN {p_a} ELSE IF k = 2 THEN {p_da, p_Db}
    ELSE {ProjectPath(k + 1)}

\* FileInfo records of a generated project
GenFileInfo(k) ==
    { [relative_path |-> p, size |-> SizeCap, is_important |-> imp,
       lines |-> ln, language |-> "python",
       priority |-> IF imp THEN 10 ELSE 0] :
         p \in GenPaths(k), ln \in {3, 60}, imp \in BOOLEAN }

RECURSIVE GenListsOfLen(_)
GenListsOfLen(n) ==
    IF n = 0 THEN { <<>> }
    ELSE { Append(s, f) : s \in GenListsOfLen(n - 1), f \in GenFileInfo(n) }

GenLists == UNION { GenListsOfLen(n) : n \in 0..GenLen }

\* the files of a generated project are all readable, with the number of
\* lines the analyzer counted
GenDisk(fs) ==
    [p \in { fs[k].relative_path : k \in 1..Len(fs) } |->
        [readable |-> TRUE,
         nlines |-> fs[CHOOSE k \in 1..Len(fs) :
                          fs[k].relative_path = p].lines]]

\* configurations of the generate specification: the section toggles and
\* gitlogs vary, the selector's fields have their defaults
GenConfigs ==
    [max_tokens : {None},
     max_files : {None},
     max_file_size : {None},
     max_lines_per_file : {None},
     compress_large_files : {TRUE},
     include_comments : {TRUE},
     files_to_analyze : {<<>>},
     add_instructions : BOOLEAN,
     include_metadata : BOOLEAN,
     include_dependencies : BOOLEAN,
     include_structure : BOOLEAN,
     gitlogs : {None, GitLogsCap}]

\* What the git invocations for one commit meet: the title query and the
\* show each exit with 0 ("ok"), exit non-zero or run into the timeout; diff
\* is the stripped output of the show, empty or not.  An invocation that is
\* not reached is written "ok", and its output "".
GitCommits ==
    { c \in [title : {"ok", "nonzero", "timeout"},
             show : {"ok", "nonzero", "timeout"},
             diff : {"", "diff"}] :
        /\ c.title # "ok" => c.show = "ok"
        /\ c.show # "ok" \/ c.title # "ok" => c.diff = "" }

RECURSIVE GitCommitLists(_)
GitCommitLists(n) ==
    IF n = 0 THEN { <<>> }
    ELSE GitCommitLists(n - 1)
         \cup { Append(l, c) : l \in { x \in GitCommitLists(n - 1) :
                                            Len(x) = n - 1 },
                                c \in GitCommits }

\* What a call of _generate_git_logs asking for n commits meets: whether
\* .git exists, how the hash listing ends, and the commits it lists (at most
\* n).  Without .git nothing is invoked; a listing that fails lists nothing.
GitEnvs(n) ==
    { e \in [git_dir : BOOLEAN,
             listing : {"ok", "nonzero", "timeout"},
             commits : GitCommitLists(n)] :
        /\ ~e.git_dir => e.listing = "ok"
        /\ (~e.git_dir \/ e.listing # "ok") => e.commits = <<>> }

\* the loop over commit_hashes: the items appended to sections, and whether
\* an invocation raised subprocess.TimeoutExpired.  (The cut of a diff longer
\* than 2000 characters is not modelled.)
RECURSIVE CommitSections(_)
CommitSections(commits) ==
    IF commits = <<>> THEN [raised |-> FALSE, items |-> <<>>]
    ELSE LET c == Head(commits)
             rest == CommitSections(Tail(commits))
             here == IF c.title = "nonzero" THEN <<>>
                     ELSE IF c.show = "nonzero"
                     THEN <<[kind |-> "commit"], [kind |-> "show_error"]>>
                     ELSE IF c.diff # ""
                     THEN <<[kind |-> "commit"], [kind |-> "diff"]>>
                     ELSE <<[kind |-> "commit"]>>
         IN  IF c.title = "timeout" \/ c.show = "timeout"
             THEN [raised |-> TRUE, items |-> <<>>]
             ELSE [raised |-> rest.raised, items |-> here \o rest.items]

\* _generate_git_logs: the section as the list of its items, <<>> for ""
GitLogs(cfg, env) ==
    IF ~Truthy(cfg.gitlogs) \/ cfg.gitlogs <= 0 THEN <<>>
    ELSE IF ~env.git_dir THEN <<>>
    ELSE IF env.listing # "ok" THEN <<>>
    ELSE IF env.commits = <<>> THEN <<>>
    ELSE LET loop == CommitSections(env.commits)
         IN  IF loop.raised THEN <<>>
             ELSE <<[kind |-> "heading"]>> \o loop.items

\* the repositories of the generate specification: with gitlogs unset none
\* is looked at; with gitlogs set, one whose invocations all succeed and one
\* whose hash listing fails
GenGitEnvs(n) ==
    IF n = None THEN { [git_dir |-> FALSE, listing |-> "ok", commits |-> <<>>] }
    ELSE { [git_dir |-> TRUE, listing |-> "nonzero", commits |-> <<>>],
           [git_dir |-> TRUE, listing |-> "ok",
            commits |-> <<[title |-> "ok", show |-> "ok", diff |-> "diff"]>>] }

GenInit ==
    /\ config \in GenConfigs
    /\ Fresh
    /\ DetFresh
    /\ project \in [files : GenLists, dependencies : {<<>>, <<"fastapi">>}]
    /\ disk = GenDisk(project.files)
    /\ lines = <<>>
    /\ current_dir = NoDir
    /\ parts = <<>>
    /\ git_logs_section = <<>>
    /\ est = [stage |-> "none"]
    /\ ExtFresh
    /\ git \in [stage : {"repo"}, env : GenGitEnvs(config.gitlogs)]

\* what a step of generate leaves alone besides parts, pc, project and
\* git_logs_section
GenFrame ==
    UNCHANGED <<config, files, func, pool, i, selected, total_tokens, stderr,
                det, disk, lines, current_dir, est, ext>>

\* generate is called: parts = [] and the header (lines 46-50)
GenHeader ==
    /\ pc = "idle"
    /\ parts = <<>>
    /\ "add_instructions" \in DOMAIN config
    /\ parts' = IF config.add_instructions THEN <<[kind |-> "header"]>>
                ELSE <<>>
    /\ pc' = "architecture"
    /\ UNCHANGED <<project, git_logs_section, git>>
    /\ GenFrame

\* line 53
GenArchitecture ==
    /\ pc = "architecture"
    /\ parts' = Append(parts, [kind |-> "architecture"])
    /\ pc' = "roadmap"
    /\ UNCHANGED <<project, git_logs_section, git>>
    /\ GenFrame

\* line 56
GenRoadmap ==
    /\ pc = "roadmap"
    /\ parts' = Append(parts, ProjectRoadmap(project).section)
    /\ project' = [project EXCEPT !.files = ProjectRoadmap(project).files]
    /\ pc' = "metadata"
    /\ UNCHANGED <<git_logs_section, git>>
    /\ GenFrame

\* lines 59-60
GenMetadata ==
    /\ pc = "metadata"
    /\ parts' = IF config.include_metadata
                THEN Append(parts, [kind |-> "metadata",
                                    total_files |-> Len(project.files)])
                ELSE parts
    /\ pc' = "dependencies"
    /\ UNCHANGED <<project, git_logs_section, git>>
    /\ GenFrame

\* GenDependencies with the section written for an empty dependency list too
GenDependencies_IgnoresEmpty ==
    /\ pc = "dependencies"
    /\ parts' = IF config.include_dependencies
                THEN Append(parts, [kind |-> "dependencies",
                                    deps |-> project.dependencies])
                ELSE parts
    /\ pc' = "structure"
    /\ UNCHANGED <<project, git_logs_section, git>>
    /\ GenFrame

\* lines 63-64
GenDependencies ==
    /\ pc = "dependencies"
    /\ parts' = IF config.include_dependencies /\ project.dependencies # <<>>
                THEN Append(parts, [kind |-> "dependencies",
                                    deps |-> project.dependencies])
                ELSE parts
    /\ pc' = "structure"
    /\ UNCHANGED <<project, git_logs_section, git>>
    /\ GenFrame

\* lines 67-68
GenStructure ==
    /\ pc = "structure"
    /\ parts' = IF config.include_structure
                THEN Append(parts, [kind |-> "structure"])
                ELSE parts
    /\ pc' = "gitlogs"
    /\ UNCHANGED <<project, git_logs_section, git>>
    /\ GenFrame

\* lines 70-72: git_logs_section = "" and, with gitlogs set, the call of
\* _generate_git_logs
GenGitLogs ==
    /\ pc = "gitlogs"
    /\ git_logs_section' = IF Truthy(config.gitlogs)
                           THEN GitLogs(config, git.env)
                           ELSE <<>>
    /\ pc' = "thematic"
    /\ UNCHANGED <<project, parts, git>>
    /\ GenFrame

\* line 75
GenThematic ==
    /\ pc = "thematic"
    /\ parts' = Append(parts, ThematicComponents(project).section)
    /\ project' = [project EXCEPT !.files = ThematicComponents(project).files]
    /\ pc' = "files"
    /\ UNCHANGED <<git_logs_section, git>>
    /\ GenFrame

\* lines 78-79
GenFiles ==
    /\ pc = "files"
    /\ parts' = Append(parts,
                     [kind |-> "files",
                      lines |-> FilesContent(config, disk, project.files)])
    /\ pc' = "join"
    /\ UNCHANGED <<project, git_logs_section, git>>
    /\ GenFrame

\* lines 81-86: the parts are joined, the git section comes last
GenReturn ==
    /\ pc = "join"
    /\ parts' = IF git_logs_section # <<>>
                THEN Append(parts, [kind |-> "git_logs"])
                ELSE parts
    /\ pc' = "returned"
    /\ UNCHANGED <<project, git_logs_section, git>>
    /\ GenFrame

GenNext ==
    \/ GenHeader
    \/ GenArchitecture
    \/ GenRoadmap
    \/ GenMetadata
    \/ GenDependencies
    \/ GenStructure
    \/ GenGitLogs
    \/ GenThematic
    \/ GenFiles
    \/ GenReturn

GenSpec == GenInit /\ [][GenNext]_vars

\* the specification of generate with every outcome of the git invocations,
\* on an empty project
GitInit ==
    /\ config \in { c \in GenConfigs : c.gitlogs # None }
    /\ Fresh
    /\ DetFresh
    /\ project = [files |-> <<>>, dependencies |-> <<>>]
    /\ disk = GenDisk(project.files)
    /\ lines = <<>>
    /\ current_dir = NoDir
    /\ parts = <<>>
    /\ git_logs_section = <<>>
    /\ est = [stage |-> "none"]
    /\ ExtFresh
    /\ git \in [stage : {"repo"}, env : GitEnvs(config.gitlogs)]

GitSpec == GitInit /\ [][GenNext]_vars

----------------------------------------------------------------------------
(* _estimate_file_tokens on its own *)

\* GenerationConfig(): every field at its default
DefaultConfig ==
    [max_tokens |-> None, max_files |-> None, max_file_size |-> None,
     max_lines_per_file |-> None, compress_large_files |-> TRUE,
     include_comments |-> TRUE, files_to_analyze |-> <<>>,
     add_instructions |-> TRUE, include_metadata |-> TRUE,
     include_dependencies |-> TRUE, include_structure |-> TRUE,
     compress_threshold_lines |-> 200, gitlogs |-> None]

\* file sizes: small ones and ones just above 2^53
EstSizes == { BigInt(hi, lo) : hi \in {0, 1}, lo \in 0..EstMax }

EstInit ==
    /\ config = DefaultConfig
    /\ Fresh
    /\ DetFresh
    /\ RenderFresh
    /\ parts = <<>>
    /\ git_logs_section = <<>>
    /\ git = [stage |-> "none"]
    /\ est \in [stage : {"sizes"}, s1 : EstSizes, s2 : EstSizes]
    /\ ExtFresh

\* _estimate_file_tokens is called on a record of each size
EstimateCalls ==
    /\ est.stage = "sizes"
    /\ est' = [stage |-> "estimated", s1 |-> est.s1, s2 |-> est.s2,
               t1 |-> EstimateTokens(est.s1), t2 |-> EstimateTokens(est.s2)]
    /\ UNCHANGED <<config, files, pc, func, pool, i, selected, total_tokens,
                   stderr, det, project, disk, lines, current_dir, parts,
                   git_logs_section, ext, git>>

EstNext == EstimateCalls

EstSpec == EstInit /\ [][EstNext]_vars

----------------------------------------------------------------------------
(* _remove_comments and the strategies it chooses from.  A text is a        *)
(* sequence of one-character strings.                                       *)

\* the index of the first occurrence of sub in s, 0 when there is none
FirstIndex(s, sub) ==
    IF Contains(s, sub)
    THEN CHOOSE k \in 1..Len(s) :
             /\ SubSeq(s, k, k + Len(sub) - 1) = sub
             /\ \A j \in 1..(k - 1) : SubSeq(s, j, j + Len(sub) - 1) # sub
    ELSE 0

\* s.split(sub, 1)[0]
Before(s, sub) ==
    IF Contains(s, sub) THEN SubSeq(s, 1, FirstIndex(s, sub) - 1) ELSE s

\* s.split(sub, 1)[1], for a sub that occurs in s
After(s, sub) == SubSeq(s, FirstIndex(s, sub) + Len(sub), Len(s))

\* content.split('\n')
RECURSIVE SplitLines(_)
SplitLines(s) ==
    IF s = <<>> THEN << <<>> >>
    ELSE IF Head(s) = "\n" THEN << <<>> >> \o SplitLines(Tail(s))
    ELSE LET r == SplitLines(Tail(s))
         IN  << <<Head(s)>> \o Head(r) >> \o Tail(r)

\* '\n'.join(cleaned)
RECURSIVE JoinLines(_)
JoinLines(ls) ==
    IF ls = <<>> THEN <<>>
    ELSE IF Len(ls) = 1 THEN ls[1]
    ELSE ls[1] \o <<"\n">> \o JoinLines(Tail(ls))

Whitespace == {" ", "\t", "\n", "\r", "\f"}

\* str.rstrip()
RECURSIVE RStrip(_)
RStrip(s) ==
    IF s # <<>> /\ s[Len(s)] \in Whitespace
    THEN RStrip(SubSeq(s, 1, Len(s) - 1))
    ELSE s

\* str.lstrip()
RECURSIVE LStrip(_)
LStrip(s) ==
    IF s # <<>> /\ Head(s) \in Whitespace THEN LStrip(Tail(s)) ELSE s

StartsWith(s, pre) == Len(s) >= Len(pre) /\ SubSeq(s, 1, Len(pre)) = pre

cc_open == <<"/", "*">>
cc_close == <<"*", "/">>
cc_line == <<"/", "/">>
cc_hash == <<"#">>

\* the character U+0060, which a string of this language cannot hold
grave == "U+0060"

\* _remove_generic_comments, body of the loop
GenericLine(line) ==
    LET l1 == IF Contains(line, cc_hash) THEN RStrip(Before(line, cc_hash))
              ELSE line
    IN  IF Contains(l1, cc_line) THEN RStrip(Before(l1, cc_line)) ELSE l1

\* _remove_generic_comments
RemoveGenericComments(content) ==
    LET ls == SplitLines(content)
    IN  JoinLines([k \in 1..Len(ls) |-> GenericLine(ls[k])])

\* the scan "for i, char in enumerate(line)" that cuts the line at the first
\* mark outside a string; quotes are the characters that open and close a
\* string, k is the position looked at
RECURSIVE CutAtMark(_, _, _, _, _, _)
CutAtMark(line, mark, quotes, k, in_string, quote_char) ==
    IF k > Len(line) THEN line
    ELSE IF line[k] \in quotes /\ (k = 1 \/ line[k - 1] # "\\")
    THEN IF ~in_string
         THEN CutAtMark(line, mark, quotes, k + 1, TRUE, line[k])
         ELSE IF line[k] = quote_char
         THEN CutAtMark(line, mark, quotes, k + 1, FALSE, "")
         ELSE CutAtMark(line, mark, quotes, k + 1, in_string, quote_char)
    ELSE IF /\ k + Len(mark) - 1 <= Len(line)
            /\ SubSeq(line, k, k + Len(mark) - 1) = mark
            /\ ~in_string
    THEN SubSeq(line, 1, k - 1)
    ELSE CutAtMark(line, mark, quotes, k + 1, in_string, quote_char)

\* the part of the loop body that _remove_js_comments and
\* _remove_cstyle_comments share: the two tests on the block comment
BlockCommentLine(line, in_multiline) ==
    LET a == IF Contains(line, cc_open)
             THEN IF Contains(line, cc_close)
                  THEN LET parts0 == Before(line, cc_open)
                           parts1 == After(line, cc_open)
                       IN  IF Contains(parts1, cc_close)
                           THEN [line |-> parts0 \o After(parts1, cc_close),
                                 in_multiline |-> FALSE]
                           ELSE [line |-> parts0, in_multiline |-> TRUE]
                  ELSE [line |-> Before(line, cc_open),
                        in_multiline |-> TRUE]
             ELSE [line |-> line, in_multiline |-> in_multiline]
    IN  IF a.in_multiline
        THEN IF Contains(a.line, cc_close)
             THEN [line |-> After(a.line, cc_close), in_multiline |-> FALSE]
             ELSE [line |-> <<>>, in_multiline |-> TRUE]
        ELSE a

\* _remove_js_comments, body of the loop: the line as it is emitted, whether
\* it is emitted, and in_multiline after it
JsLine(line, in_multiline) ==
    LET b == BlockCommentLine(line, in_multiline)
        l == IF Contains(b.line, cc_line)
             THEN CutAtMark(b.line, cc_line, {"\"", "'", grave}, 1, FALSE, "")
             ELSE b.line
    IN  [line |-> l, in_multiline |-> b.in_multiline,
         keep |-> l # <<>> \/ ~b.in_multiline]

\* _remove_cstyle_comments, body of the loop
CStyleLine(line, in_multiline) ==
    LET b == BlockCommentLine(line, in_multiline)
        l == IF Contains(b.line, cc_line)
             THEN RStrip(Before(b.line, cc_line))
             ELSE b.line
    IN  [line |-> l, in_multiline |-> b.in_multiline,
         keep |-> l # <<>> \/ ~b.in_multiline]

\* the loop of _remove_js_comments (js TRUE) or _remove_cstyle_comments over
\* the lines ls: the list cleaned
RECURSIVE BlockCommentLoop(_, _, _)
BlockCommentLoop(js, ls, in_multiline) ==
    IF ls = <<>> THEN <<>>
    ELSE LET r == IF js THEN JsLine(Head(ls), in_multiline)
                  ELSE CStyleLine(Head(ls), in_multiline)
         IN  (IF r.keep THEN <<r.line>> ELSE <<>>)
             \o BlockCommentLoop(js, Tail(ls), r.in_multiline)

\* _remove_js_comments
RemoveJsComments(content) ==
    JoinLines(BlockCommentLoop(TRUE, SplitLines(content), FALSE))

\* _remove_cstyle_comments
RemoveCStyleComments(content) ==
    JoinLines(BlockCommentLoop(FALSE, SplitLines(content), FALSE))

\* the inline-comment scan of the python, ruby and shell strategies
CutAtHash(line) ==
    IF Contains(line, cc_hash)
    THEN CutAtMark(line, cc_hash, {"\"", "'"}, 1, FALSE, "")
    ELSE line

triple_double == <<"\"", "\"", "\"">>
triple_single == <<"'", "'", "'">>

\* the loop of _remove_python_comments over the lines ls
RECURSIVE PythonLoop(_, _, _)
PythonLoop(ls, in_multiline, multiline_char) ==
    IF ls = <<>> THEN <<>>
    ELSE LET line == Head(ls) IN
         IF Contains(line, triple_double) \/ Contains(line, triple_single)
         THEN <<line>> \o
              (IF ~in_multiline
               THEN PythonLoop(Tail(ls), TRUE,
                               IF Contains(line, triple_double)
                               THEN triple_double ELSE triple_single)
               ELSE IF Contains(line, multiline_char)
               THEN PythonLoop(Tail(ls), FALSE, <<>>)
               ELSE PythonLoop(Tail(ls), in_multiline, multiline_char))
         ELSE IF in_multiline
         THEN <<line>> \o PythonLoop(Tail(ls), in_multiline, multiline_char)
         ELSE <<CutAtHash(line)>>
              \o PythonLoop(Tail(ls), in_multiline, multiline_char)

\* _remove_python_comments
RemovePythonComments(content) ==
    JoinLines(PythonLoop(SplitLines(content), FALSE, <<>>))

\* _remove_ruby_comments
RemoveRubyComments(content) ==
    LET ls == SplitLines(content)
    IN  JoinLines([k \in 1..Len(ls) |-> CutAtHash(ls[k])])

\* _remove_shell_comments, body of the loop
ShellLine(line) ==
    LET stripped == LStrip(line) IN
    IF StartsWith(stripped, cc_hash)
    THEN IF ~StartsWith(stripped, <<"#", "!">>) THEN <<>> ELSE line
    ELSE CutAtHash(line)

\* _remove_shell_comments
RemoveShellComments(content) ==
    LET ls == SplitLines(content)
    IN  JoinLines([k \in 1..Len(ls) |-> ShellLine(ls[k])])

\* _remove_comments
RemoveComments(content, language) ==
    IF language = "python" THEN RemovePythonComments(content)
    ELSE IF language \in {"javascript", "typescript"}
    THEN RemoveJsComments(content)
    ELSE IF language \in {"java", "c", "cpp", "csharp", "go", "rust"}
    THEN RemoveCStyleComments(content)
    ELSE IF language = "ruby" THEN RemoveRubyComments(content)
    ELSE IF language = "shell" THEN RemoveShellComments(content)
    ELSE RemoveGenericComments(content)

\* the pieces file contents are put together from
StripTokens ==
    { <<"a">>, cc_open, cc_close, cc_line, cc_hash, <<"\n">>, <<" ">>,
      <<"\"">> }

RECURSIVE ContentsOfLen(_)
ContentsOfLen(n) ==
    IF n = 0 THEN { <<>> }
    ELSE { c \o t : c \in ContentsOfLen(n - 1), t \in StripTokens }

\* file contents: up to StripLen pieces
Contents == UNION { ContentsOfLen(n) : n \in 0..StripLen }

\* languages: one of each strategy, and two without a strategy of their own
Languages ==
    {"unknown", "markdown", "python", "javascript", "typescript", "java",
     "ruby", "shell"}

StripInit ==
    /\ config = [DefaultConfig EXCEPT !.include_comments = FALSE]
    /\ Fresh
    /\ DetFresh
    /\ RenderFresh
    /\ GenFresh
    /\ strip \in [stage : {"read"}, content : Contents, language : Languages]
    /\ gui = [stage |-> "none"]
    /\ scan = [stage |-> "none"]
    /\ cli = [stage |-> "none"]

\* _generate_file_content, lines 637-638: the content read from the file goes
\* through _remove_comments when include_comments is false
StripComments ==
    /\ strip.stage = "read"
    /\ ~config.include_comments
    /\ strip' = [stage |-> "stripped", content |-> strip.content,
                 language |-> strip.language,
                 result |-> RemoveComments(strip.content, strip.language)]
    /\ UNCHANGED <<config, files, pc, func, pool, i, selected, total_tokens,
                   stderr, det, project, disk, lines, current_dir, parts,
                   git_logs_section, est, gui, scan, cli,
                   git>>

StripNext == StripComments

StripSpec == StripInit /\ [][StripNext]_vars

----------------------------------------------------------------------------
(* The GUI: _generate_context, its worker threads and _display_context.     *)
(* gui holds the option the user has set in the window (comments_var), the  *)
(* project analysed, the workers by request number, the callbacks handed to *)
(* root.after in the order the main loop will run them, and the text of the *)
(* output area.                                                             *)

\* a worker that has not been started
NoWorker == [pc |-> "none"]

\* MarkdownGenerator(config).generate(project_info): the document is
\* determined by the configuration and the project
Markdown(cfg, project_info) == [config |-> cfg, project |-> project_info]

GuiInit ==
    /\ config = DefaultConfig
    /\ Fresh
    /\ DetFresh
    /\ RenderFresh
    /\ GenFresh
    /\ strip = [stage |-> "none"]
    /\ scan = [stage |-> "none"]
    /\ cli = [stage |-> "none"]
    /\ gui = [stage |-> "mainloop",
              comments_var |-> TRUE,
              project_info |-> "project",
              requests |-> 0,
              workers |-> [w \in 1..MaxRequests |-> NoWorker],
              after |-> <<>>,
              output_text |-> "",
              status |-> ""]

GuiFrame ==
    UNCHANGED <<config, files, pc, func, pool, i, selected, total_tokens,
                stderr, det, project, disk, lines, current_dir, parts,
                git_logs_section, est, strip, scan, cli, git>>

\* the user ticks or unticks "include comments"
ToggleComments ==
    /\ gui.stage = "mainloop"
    /\ gui' = [gui EXCEPT !.comments_var = ~gui.comments_var]
    /\ GuiFrame

\* _generate_context: the click on Generate Context starts a worker thread
GenerateContext ==
    /\ gui.stage = "mainloop"
    /\ gui.requests < MaxRequests
    /\ gui.project_info # "None"
    /\ gui' = [gui EXCEPT !.requests = gui.requests + 1,
                          !.workers[gui.requests + 1] = [pc |-> "config"],
                          !.status = "Generating context..."]
    /\ GuiFrame

\* generate_thread, line 307: the worker reads the options from the window
WorkerGetConfig(w) ==
    /\ gui.workers[w].pc = "config"
    /\ gui' = [gui EXCEPT !.workers[w] =
                   [pc |-> "generate",
                    config |-> [include_comments |-> gui.comments_var]]]
    /\ GuiFrame

\* generate_thread, lines 308-312: the worker generates the document and
\* hands _display_context to the main loop
WorkerGenerate(w) ==
    /\ gui.workers[w].pc = "generate"
    /\ LET markdown == Markdown(gui.workers[w].config, gui.project_info) IN
       gui' = [gui EXCEPT !.workers[w] = [pc |-> "finished",
                                          markdown |-> markdown],
                          !.after = Append(gui.after,
                                           [call |-> "_display_context",
                                            markdown |-> markdown])]
    /\ GuiFrame

\* generate_thread, lines 313-315: the generation raised; the worker hands
\* the error box and the status text to the main loop
WorkerFails(w) ==
    /\ gui.workers[w].pc = "generate"
    /\ gui' = [gui EXCEPT !.workers[w] = [pc |-> "failed"],
                          !.after = gui.after
                                    \o <<[call |-> "showerror"],
                                          [call |-> "status_failed"]>>]
    /\ GuiFrame

\* the main loop runs the oldest callback handed to root.after;
\* _display_context (lines 319-323) replaces the text of the output area
MainLoop ==
    /\ gui.stage = "mainloop"
    /\ gui.after # <<>>
    /\ LET cb == Head(gui.after) IN
       gui' = IF cb.call = "_display_context"
              THEN [gui EXCEPT !.after = Tail(gui.after),
                               !.output_text = cb.markdown,
                               !.status = "Context generated"]
              ELSE IF cb.call = "status_failed"
              THEN [gui EXCEPT !.after = Tail(gui.after),
                               !.status = "Generation failed"]
              ELSE [gui EXCEPT !.after = Tail(gui.after)]
    /\ GuiFrame

GuiNext ==
    \/ ToggleComments
    \/ GenerateContext
    \/ \E w \in 1..MaxRequests : WorkerGetConfig(w)
    \/ \E w \in 1..MaxRequests : WorkerGenerate(w)
    \/ \E w \in 1..MaxRequests : WorkerFails(w)
    \/ MainLoop

GuiSpec == GuiInit /\ [][GuiNext]_vars

----------------------------------------------------------------------------
(* ProjectAnalyzer: _get_file_info and the sort of analyze *)

EndsWith(s, suf) ==
    Len(s) >= Len(suf) /\ SubSeq(s, Len(s) - Len(suf) + 1, Len(s)) = suf

\* LANGUAGE_PATTERNS, the entries for python and javascript (the patterns of
\* the other languages match no file name of the model); each pattern is an
\* extension anchored at the end of the name
LANGUAGE_PATTERNS ==
    << [lang |-> "python", patterns |-> {<<".", "p", "y">>, <<".", "p", "y", "w">>, <<".", "p", "y", "i">>}],
       [lang |-> "javascript", patterns |-> {<<".", "j", "s">>, <<".", "j", "s", "x">>, <<".", "m", "j", "s">>, <<".", "c", "j", "s">>}] >>

\* _detect_language: re.search(pattern, path.name, re.IGNORECASE) over the
\* languages in dict order
DetectLanguage(name) ==
    LET hit(n) == \E pat \in LANGUAGE_PATTERNS[n].patterns :
                      EndsWith(Lower(name), pat)
    IN  IF \E n \in 1..Len(LANGUAGE_PATTERNS) : hit(n)
        THEN LANGUAGE_PATTERNS[CHOOSE n \in 1..Len(LANGUAGE_PATTERNS) :
                                   hit(n) /\ \A m \in 1..(n - 1) : ~hit(m)].lang
        ELSE "unknown"

\* primary_languages of _get_file_info, for the project types of the model
PrimaryLanguages(project_type) ==
    IF project_type = "python" THEN {"python"}
    ELSE IF project_type \in {"javascript", "typescript"}
    THEN {"javascript", "typescript"}
    ELSE {}

\* self.important_files: a name of UNIVERSAL_IMPORTANT_FILES and a custom one
ImportantNames == {<<"R", "E", "A", "D", "M", "E">>, <<"k">>}

\* GetFileInfo with no boost for an important file
GetFileInfo_NoImportantBoost(project_type, relative_path) ==
    LET name == PathName([relative_path |-> relative_path])
        language == DetectLanguage(name)
        is_important ==
            \/ name \in ImportantNames
            \/ \E important \in ImportantNames :
                  Contains(relative_path, important)
        lower == Lower(relative_path)
    IN  [relative_path |-> relative_path, size |-> SizeCap, lines |-> 1,
         language |-> language, is_important |-> is_important,
         priority |->
             (IF language \in PrimaryLanguages(project_type) THEN 5 ELSE 0)
             - (IF Contains(lower, <<"t", "e", "s", "t">>) THEN 2 ELSE 0)
             - (IF Contains(lower, <<"e", "x", "a", "m", "p", "l", "e">>) \/ Contains(lower, <<"d", "e", "m", "o">>)
                THEN 1 ELSE 0)]

\* _get_file_info for the file at relative_path (its size and line count are
\* fixed in the model)
GetFileInfo(project_type, relative_path) ==
    LET name == PathName([relative_path |-> relative_path])
        language == DetectLanguage(name)
        is_important ==
            \/ name \in ImportantNames
            \/ \E important \in ImportantNames :
                  Contains(relative_path, important)
        lower == Lower(relative_path)
    IN  [relative_path |-> relative_path, size |-> SizeCap, lines |-> 1,
         language |-> language, is_important |-> is_important,
         priority |->
             (IF is_important THEN 10 ELSE 0)
             + (IF language \in PrimaryLanguages(project_type) THEN 5 ELSE 0)
             - (IF Contains(lower, <<"t", "e", "s", "t">>) THEN 2 ELSE 0)
             - (IF Contains(lower, <<"e", "x", "a", "m", "p", "l", "e">>) \/ Contains(lower, <<"d", "e", "m", "o">>)
                THEN 1 ELSE 0)]

\* files.sort(key=lambda f: f.priority, reverse=True): descending and stable
RECURSIVE SortByPriority(_)
SortByPriority(fs) ==
    IF fs = <<>> THEN <<>>
    ELSE LET x == fs[Len(fs)]
             r == SortByPriority(SubSeq(fs, 1, Len(fs) - 1))
             n == Cardinality({k \in 1..Len(r) : r[k].priority >= x.priority})
         IN  SubSeq(r, 1, n) \o <<x>> \o SubSeq(r, n + 1, Len(r))

\* relative paths of the files of a project
ScanPaths ==
    { <<"k">>, <<"k", ".", "p", "y">>, <<"t", "e", "s", "t", "/", "d", "e", "m", "o", "/", "k">>, <<"t", ".", "p", "y">>, <<"t", "e", "s", "t", "/", "t", ".", "p", "y">>, <<"d", "e", "m", "o">>, <<"T", "e", "s", "t", "/", "E", "x", "a", "m", "p", "l", "e">> }

RECURSIVE WalksOfLen(_)
WalksOfLen(n) ==
    IF n = 0 THEN { <<>> }
    ELSE { Append(w, q) : w \in WalksOfLen(n - 1), q \in ScanPaths }

\* the files in the order os.walk yields them: any order, no path twice
Walks ==
    { w \in UNION { WalksOfLen(n) : n \in 0..ScanLen } :
        \A a, b \in 1..Len(w) : a # b => w[a] # w[b] }

ScanInit ==
    /\ config = DefaultConfig
    /\ Fresh
    /\ DetFresh
    /\ RenderFresh
    /\ GenFresh
    /\ strip = [stage |-> "none"]
    /\ gui = [stage |-> "none"]
    /\ cli = [stage |-> "none"]
    /\ scan \in [stage : {"constructed"},
                  project_type : {"python", "javascript", "unknown"},
                  walk : Walks]

\* analyze: the walk builds the list with _get_file_info, then the list is
\* sorted by priority
Analyze ==
    /\ scan.stage = "constructed"
    /\ scan' = [stage |-> "analyzed", project_type |-> scan.project_type,
                walk |-> scan.walk,
                files |-> SortByPriority(
                    [k \in 1..Len(scan.walk) |->
                        GetFileInfo(scan.project_type, scan.walk[k])])]
    /\ UNCHANGED <<config, files, pc, func, pool, i, selected, total_tokens,
                   stderr, det, project, disk, lines, current_dir, parts,
                   git_logs_section, est, strip, gui, cli, git>>

ScanNext == Analyze

ScanSpec == ScanInit /\ [][ScanNext]_vars

----------------------------------------------------------------------------
(* cli.main: the configuration file and the command line *)

\* the six store_true options of create_parser, by the field each one clears
Toggles ==
    {"compress_large_files", "include_comments", "include_structure",
     "include_dependencies", "include_metadata", "add_instructions"}

\* command lines: an integer option is None when it is not given; no_flags is
\* the set of --no-... options given; files is empty when --files is not
\* given (nargs='+' takes at least one path); --gitlogs may be absent, bare
\* (n is None) or followed by a number
CommandLines ==
    [max_tokens : {None, 0, 2},
     max_files : {None, 1},
     max_file_size : {None, 1},
     max_lines_per_file : {None, 1},
     compress_threshold : {None, 100},
     no_flags : SUBSET Toggles,
     files : { <<>>, << <<"k">> >> },
     gitlogs : { [given |-> FALSE, n |-> None], [given |-> TRUE, n |-> None],
                 [given |-> TRUE, n |-> 0], [given |-> TRUE, n |-> 3] }]

\* generation_config of the configuration file: a missing file gives
\* AppConfig.default(), a file gives GenerationConfig(**data)
FileConfigs ==
    { DefaultConfig,
      [DefaultConfig EXCEPT !.compress_threshold_lines = 50],
      [DefaultConfig EXCEPT !.max_tokens = 3, !.max_files = 2,
                            !.max_file_size = 4, !.max_lines_per_file = 5,
                            !.compress_large_files = FALSE,
                            !.include_comments = FALSE,
                            !.include_metadata = FALSE,
                            !.files_to_analyze = << <<"t">> >>,
                            !.gitlogs = 2] }

\* parser.parse_args(): the namespace, with the default of each option that
\* is not given (200 for --compress-threshold, const=5 for a bare --gitlogs)
ParseArgs(argv) ==
    [max_tokens |-> argv.max_tokens,
     max_files |-> argv.max_files,
     max_file_size |-> argv.max_file_size,
     max_lines_per_file |-> argv.max_lines_per_file,
     compress_threshold |-> IF argv.compress_threshold = None THEN 200
                            ELSE argv.compress_threshold,
     no_compress |-> "compress_large_files" \in argv.no_flags,
     no_comments |-> "include_comments" \in argv.no_flags,
     no_structure |-> "include_structure" \in argv.no_flags,
     no_dependencies |-> "include_dependencies" \in argv.no_flags,
     no_metadata |-> "include_metadata" \in argv.no_flags,
     no_instructions |-> "add_instructions" \in argv.no_flags,
     files |-> argv.files,
     gitlogs |-> IF ~argv.gitlogs.given THEN None
                 ELSE IF argv.gitlogs.n = None THEN 5
                 ELSE argv.gitlogs.n]

\* "Override with command-line arguments" of main
OverrideWithArgs(gen_config, args) ==
    [gen_config EXCEPT
        !.max_tokens = IF args.max_tokens # None THEN args.max_tokens ELSE @,
        !.max_files = IF args.max_files # None THEN args.max_files ELSE @,
        !.max_file_size =
            IF args.max_file_size # None THEN args.max_file_size ELSE @,
        !.max_lines_per_file =
            IF args.max_lines_per_file # None THEN args.max_lines_per_file
            ELSE @,
        !.compress_threshold_lines =
            IF args.compress_threshold # None THEN args.compress_threshold
            ELSE @,
        !.compress_large_files = IF args.no_compress THEN FALSE ELSE @,
        !.include_comments = IF args.no_comments THEN FALSE ELSE @,
        !.include_structure = IF args.no_structure THEN FALSE ELSE @,
        !.include_dependencies = IF args.no_dependencies THEN FALSE ELSE @,
        !.include_metadata = IF args.no_metadata THEN FALSE ELSE @,
        !.add_instructions = IF args.no_instructions THEN FALSE ELSE @,
        !.files_to_analyze = IF args.files # <<>> THEN args.files ELSE @,
        !.gitlogs = IF Truthy(args.gitlogs) THEN args.gitlogs ELSE @]

CliInit ==
    /\ config = DefaultConfig
    /\ Fresh
    /\ DetFresh
    /\ RenderFresh
    /\ GenFresh
    /\ strip = [stage |-> "none"]
    /\ gui = [stage |-> "none"]
    /\ scan = [stage |-> "none"]
    /\ cli \in [stage : {"start"}, argv : CommandLines, file : FileConfigs]

\* parser = create_parser(); args = parser.parse_args()
CliParse ==
    /\ cli.stage = "start"
    /\ cli' = [stage |-> "parsed", argv |-> cli.argv, file |-> cli.file,
               args |-> ParseArgs(cli.argv)]
    /\ UNCHANGED <<config, files, pc, func, pool, i, selected, total_tokens,
                   stderr, det, project, disk, lines, current_dir, parts,
                   git_logs_section, est, strip, gui, scan, git>>

\* the configuration is loaded, the options of the command line are written
\* over it, and MarkdownGenerator(gen_config) is constructed
CliConfigure ==
    /\ cli.stage = "parsed"
    /\ config' = OverrideWithArgs(cli.file, cli.args)
    /\ cli' = [cli EXCEPT !.stage = "configured"]
    /\ UNCHANGED <<files, pc, func, pool, i, selected, total_tokens,
                   stderr, det, project, disk, lines, current_dir, parts,
                   git_logs_section, est, strip, gui, scan, git>>

CliNext == CliParse \/ CliConfigure

CliSpec == CliInit /\ [][CliNext]_vars

----------------------------------------------------------------------------
(* Properties *)

\* position of the record with relative path p in the list fs (0 if absent);
\* relative paths are unique within a project snapshot
PosIn(fs, p) ==
    IF \E k \in 1..Len(fs) : fs[k].relative_path = p
    THEN CHOOSE k \in 1..Len(fs) : fs[k].relative_path = p
    ELSE 0

\* C1: whenever max_files is set (any non-negative integer, 0 included), the
\* selection never has more than max_files entries, in _select_files and in
\* _apply_general_limits alike.
C1_AtMostMaxFiles ==
    config.max_files # None => Len(selected) <= config.max_files

\* C2: whenever max_tokens is set (any non-negative integer, 0 included) and
\* compress_large_files is false, the running token total never exceeds
\* max_tokens, after every inclusion and at the end.
C2_TotalWithinMaxTokens ==
    (config.max_tokens # None /\ ~config.compress_large_files)
        => total_tokens <= config.max_tokens

\* C3: with max_tokens set and compress_large_files true, an iteration of the
\* regular loop that includes a record starts from a total within max_tokens
\* and leaves the total within max_tokens.
C3_RegularNeverOverflows ==
    [][ (/\ pc = "regular"
         /\ config.max_tokens # None
         /\ config.compress_large_files
         /\ Len(selected') > Len(selected))
        => (/\ total_tokens <= config.max_tokens
            /\ total_tokens' <= config.max_tokens) ]_vars

\* C4: the selection lists every important record before every regular
\* record, and two selected records of the same partition appear in the order
\* they have in the input list.
C4_ImportantFirstInputOrder ==
    \A a, b \in 1..Len(selected) :
        a < b =>
            /\ selected[b].is_important => selected[a].is_important
            /\ selected[a].is_important = selected[b].is_important
                 => /\ PosIn(files, selected[a].relative_path) > 0
                    /\ PosIn(files, selected[a].relative_path)
                          < PosIn(files, selected[b].relative_path)

\* C4 witness: a returned selection holding an important record and a regular
\* record that stands before it in the input, and two regular records.
C4_Witness ==
    /\ pc = "done"
    /\ \E a, b \in 1..Len(selected) :
          /\ selected[a].is_important /\ ~selected[b].is_important
          /\ PosIn(files, selected[b].relative_path)
                < PosIn(files, selected[a].relative_path)
    /\ \E a, b \in 1..Len(selected) :
          a < b /\ ~selected[a].is_important /\ ~selected[b].is_important

\* C5: the selection returned in explicit-list mode is, record for record,
\* the selection the loops of _select_files (normal mode) produce on the same
\* candidate pool.
C5_ExplicitSameAsNormal ==
    (pc = "done" /\ func = "_apply_general_limits")
        => selected = Allocate("_select_files", config, pool)

\* C6: with compress_large_files true, every important candidate reached
\* before max_files is exhausted is in the returned selection, whatever
\* max_tokens and max_file_size are; with max_files unset that is every
\* important candidate.
C6_ImportantNeverDropped ==
    (pc = "done" /\ config.compress_large_files)
        => \A k \in 1..Len(ImportantFiles(pool)) :
              (config.max_files = None \/ k <= config.max_files)
                  => InList(ImportantFiles(pool)[k], selected)

\* C6 witness: a returned selection, compression on, that holds an important
\* record larger than max_file_size and whose total is above max_tokens.
C6_Witness ==
    /\ pc = "done"
    /\ config.compress_large_files
    /\ Truthy(config.max_file_size)
    /\ Truthy(config.max_tokens)
    /\ total_tokens > config.max_tokens
    /\ \E k \in 1..Len(selected) :
          selected[k].is_important /\ selected[k].size > config.max_file_size

\* the entry e, normalised as a path, names the record f by its relative path
\* or by its file name
Names(e, f) == AsPosix(e) = f.relative_path \/ AsPosix(e) = PathName(f)

\* some entry of files_to_analyze names the record f
Named(f) ==
    \E k \in 1..Len(config.files_to_analyze) :
        Names(config.files_to_analyze[k], f)

\* C7: when files_to_analyze is non-empty and names no record of the file
\* list, the candidate pool is the full file list, exactly one warning has been
\* written to stderr, the call returns what the allocation yields on the full
\* list, and the selection holds records of the file list only.
C7_EmptyMatchFallsBack ==
    (/\ pc # "idle"
     /\ config.files_to_analyze # <<>>
     /\ \A k \in 1..Len(files) : ~Named(files[k]))
        => /\ pool = files
           /\ Len(stderr) = 1
           /\ \A k \in 1..Len(selected) : InList(selected[k], files)
           /\ pc = "done"
                => selected = Allocate("_apply_general_limits", config, files)

\* C7 witness: a call with a non-empty files_to_analyze naming none of the
\* listed files has returned a non-empty selection.
C7_Witness ==
    /\ pc = "done"
    /\ config.files_to_analyze # <<>>
    /\ files # <<>>
    /\ \A k \in 1..Len(files) : ~Named(files[k])
    /\ selected # <<>>
    /\ Len(stderr) = 1

\* the record f has a relative path or a file name equal to an entry of
\* files_to_analyze as written
NamedExactly(f) ==
    \E k \in 1..Len(config.files_to_analyze) :
        \/ config.files_to_analyze[k] = f.relative_path
        \/ config.files_to_analyze[k] = PathName(f)

\* C8 (as stated): when files_to_analyze is non-empty and some record's
\* relative path or file name exactly equals an entry, every selected record
\* has a relative path or file name exactly equal to an entry.
C8_OnlyExactMatches ==
    (/\ config.files_to_analyze # <<>>
     /\ \E k \in 1..Len(files) : NamedExactly(files[k]))
        => \A j \in 1..Len(selected) : NamedExactly(selected[j])

\* C8 (amended): when files_to_analyze is non-empty and some record's relative
\* path or file name equals an entry after the entry is normalised as a path
\* (Path(entry).as_posix()), every selected record has a relative path or file
\* name equal to a normalised entry.
C8_OnlyNormalisedMatches ==
    (/\ config.files_to_analyze # <<>>
     /\ \E k \in 1..Len(files) : Named(files[k]))
        => \A j \in 1..Len(selected) : Named(selected[j])

\* C8 witness: a returned non-empty selection in explicit-list mode where one
\* listed file is named by an entry and another is not.
C8_Witness ==
    /\ pc = "done"
    /\ config.files_to_analyze # <<>>
    /\ \E k \in 1..Len(files) : Named(files[k])
    /\ \E k \in 1..Len(files) : ~Named(files[k])
    /\ selected # <<>>

\* fnmatch-style match of the pattern p against the string s: "*" matches any
\* run of characters, "?" any one character
RECURSIVE GlobMatch(_, _)
GlobMatch(p, s) ==
    IF p = <<>> THEN s = <<>>
    ELSE IF Head(p) = "*"
    THEN GlobMatch(Tail(p), s) \/ (s # <<>> /\ GlobMatch(p, Tail(s)))
    ELSE /\ s # <<>>
         /\ (Head(p) = "?" \/ Head(p) = Head(s))
         /\ GlobMatch(Tail(p), Tail(s))

HasWildcard(e) == \E k \in 1..Len(e) : e[k] \in {"*", "?"}

\* C9: in explicit-list mode, a record whose relative path glob-matches an
\* entry of files_to_analyze containing "*" or "?" is in the candidate pool.
C9_WildcardEntriesMatch ==
    (pc # "idle" /\ config.files_to_analyze # <<>>)
        => \A k \in 1..Len(files), j \in 1..Len(config.files_to_analyze) :
              (/\ HasWildcard(config.files_to_analyze[j])
               /\ GlobMatch(config.files_to_analyze[j],
                            files[k].relative_path))
                  => InList(files[k], pool)

\* iterations and loop exits the running call still has before it
Variant ==
    IF pc = "important"
    THEN (Len(ImportantFiles(pool)) + 1 - i) + Len(RegularFiles(pool)) + 2
    ELSE IF pc = "regular"
    THEN (Len(RegularFiles(pool)) + 1 - i) + 1
    ELSE 0

\* C10: a call of select never leaves its two loops other than by returning:
\* every step of a running call stays in the loops or returns, and brings the
\* return strictly nearer; and a call on an empty file list returns the empty
\* selection, also when files_to_analyze is non-empty.
C10_NeverFails ==
    [][ /\ pc \in {"important", "regular"}
           => /\ pc' \in {"important", "regular", "done"}
              /\ Variant >= 0
              /\ Variant' < Variant
        /\ (pc' = "done" /\ files' = <<>>) => selected' = <<>> ]_vars

\* C10 witness: a call with an empty file list and a non-empty
\* files_to_analyze has returned.
C10_Witness ==
    /\ pc = "done"
    /\ files = <<>>
    /\ config.files_to_analyze # <<>>
    /\ selected = <<>>

\* C11: a call of select repeated with the same file list on the same
\* generator, directly or after another call, returns the sequence the first
\* call returned on the generator as constructed.
C11_RepeatedCallSameResult ==
    (pc = "done" /\ det.stage = "repeat") => selected = det.first.result

\* C11 witness: the repetition, made after another call, has returned a
\* non-empty selection that leaves out some of the listed files.
C11_Witness ==
    /\ pc = "done"
    /\ det.stage = "repeat"
    /\ det.between
    /\ selected # <<>>
    /\ Len(selected) < Len(files)

\* the per-file sections of the file-contents part, in document order
FileSections == SelectSeq(lines, LAMBDA x : x.kind = "file")

\* running token total when the k-th record of the selection sel was reached
RECURSIVE TotalBefore(_, _, _)
\* the k-th record of sel is important and was admitted over the token budget
OverBudget(cfg, sel, k) ==
    /\ sel[k].is_important
    /\ Truthy(cfg.max_tokens)
    /\ TotalBefore(cfg, sel, k) + EstimateFileTokens(sel[k]) > cfg.max_tokens

TotalBefore(cfg, sel, k) ==
    IF k = 1 THEN 0
    ELSE TotalBefore(cfg, sel, k - 1)
         + (IF OverBudget(cfg, sel, k - 1)
            THEN EstimateFileTokens(sel[k - 1]) \div 3
            ELSE EstimateFileTokens(sel[k - 1]))

\* the selector included the k-th record of sel in compressed form: an
\* important record admitted over the token budget or over max_file_size
CompressedForm(cfg, sel, k) ==
    /\ sel[k].is_important
    /\ cfg.compress_large_files
    /\ \/ OverBudget(cfg, sel, k)
       \/ Truthy(cfg.max_file_size) /\ sel[k].size > cfg.max_file_size

\* C12: in the returned file-contents part, a readable record that the
\* selector included in compressed form is rendered as a structural digest,
\* and a readable record included uncompressed is rendered in full.
C12_CompressedRenderedAsDigest ==
    pc = "joined" =>
        \A k \in 1..Len(selected) :
            (k <= Len(FileSections) /\ disk[selected[k].relative_path].readable)
                => FileSections[k].body.kind
                     = (IF CompressedForm(config, selected, k)
                        THEN "digest" ELSE "code")

\* C13: when max_lines_per_file is set, the content emitted for a selected
\* file has at most max_lines_per_file lines.
C13_MaxLinesPerFileEnforced ==
    config.max_lines_per_file # None =>
        \A k \in 1..Len(FileSections) :
            FileSections[k].body.kind = "code"
                => FileSections[k].body.nlines <= config.max_lines_per_file

\* C14: in the returned file-contents part every selected file has its
\* section, in selection order; the section of a file that cannot be read
\* holds the error placeholder, the section of a readable file its content.
C14_UnreadableGetsPlaceholder ==
    pc = "joined" =>
        /\ Len(FileSections) = Len(selected)
        /\ \A k \in 1..Len(selected) :
              /\ FileSections[k].path = selected[k].relative_path
              /\ FileSections[k].body.kind
                   = (IF disk[selected[k].relative_path].readable
                      THEN "code" ELSE "error")

\* C14 witness: a returned file-contents part where an unreadable selected
\* file is followed by a readable one.
C14_Witness ==
    /\ pc = "joined"
    /\ \E k \in 1..(Len(selected) - 1) :
          /\ ~disk[selected[k].relative_path].readable
          /\ disk[selected[k + 1].relative_path].readable
          /\ FileSections[k].body.kind = "error"
          /\ FileSections[k + 1].body.kind = "code"

\* C15: while the files are rendered and when the part is returned, the
\* sections written so far are those of the first i selected records, in
\* selection order, each once; at the return all selected records are there.
C15_SectionsInSelectionOrder ==
    pc \in {"render", "joined"} =>
        /\ [k \in 1..Len(FileSections) |-> FileSections[k].path]
             = [k \in 1..i |-> selected[k].relative_path]
        /\ pc = "joined" => i = Len(selected)

\* C15 witness: a returned part with two selected files of one directory,
\* the important one selected first although it is listed second.
C15_Witness ==
    /\ pc = "joined"
    /\ Len(selected) = 2
    /\ Len(FileSections) = 2
    /\ selected[1] = project.files[2]
    /\ FileDir(selected[1]) = FileDir(selected[2])

\* the eight sections of generate in their fixed order
SectionOrder ==
    <<"header", "architecture", "roadmap", "metadata", "dependencies",
      "structure", "thematic", "files">>

\* the section is toggled on and, for the dependencies, has data behind it
SectionExpected(kind) ==
    IF kind = "header" THEN config.add_instructions
    ELSE IF kind = "metadata" THEN config.include_metadata
    ELSE IF kind = "dependencies"
         THEN config.include_dependencies /\ project.dependencies # <<>>
    ELSE IF kind = "structure" THEN config.include_structure
    ELSE TRUE

\* C16: when generate returns, the sections of the document other than the
\* git log are exactly those of the fixed order header, architecture,
\* roadmap, metadata, dependencies, structure, thematic, files whose toggle
\* is on (and, for the dependencies, whose data is not empty), in that order.
C16_SectionsInFixedOrder ==
    pc = "returned" =>
        LET body == SelectSeq(parts, LAMBDA s : s.kind # "git_logs")
        IN  [k \in 1..Len(body) |-> body[k].kind]
                = SelectSeq(SectionOrder, SectionExpected)

\* generate returned with the metadata toggled off between sections that are
\* on, and with the dependencies toggled on but empty
C16_Witness ==
    /\ pc = "returned"
    /\ config.add_instructions
    /\ ~config.include_metadata
    /\ config.include_dependencies
    /\ project.dependencies = <<>>
    /\ config.include_structure
    /\ Len(parts) >= 6

\* C17: no step of generate changes the project: its file list keeps the same
\* records in the same order, each with the same field values.
C17_InputUnchanged == [][project' = project]_vars

\* generate returned after a section builder sorted a list of two records
\* into the opposite of their order in the project's list
C17_Witness ==
    /\ pc = "returned"
    /\ Len(project.files) = 2
    /\ \E k \in 1..Len(parts) :
          /\ parts[k].kind = "thematic"
          /\ \E n \in 1..Len(parts[k].themes) :
                parts[k].themes[n].files
                    = <<project.files[2].relative_path,
                        project.files[1].relative_path>>

\* a <= b for two integers written as hi and lo
BigLeq(a, b) == a.hi < b.hi \/ (a.hi = b.hi /\ a.lo <= b.lo)

\* size div 4 of the size hi * 2^53 + lo, counted as hi * 2^51 + lo
DivFour(sz) == [hi |-> sz.hi, lo |-> sz.lo \div 4]

\* C18: the estimate of a size is the size div 4, and of two sizes the larger
\* one never has the smaller estimate.
C18_FloorQuarterAndMonotonic ==
    est.stage = "estimated" =>
        /\ est.t1 = DivFour(est.s1)
        /\ BigLeq(est.s1, est.s2) => BigLeq(est.t1, est.t2)

\* the part of C18 that holds at every size: the estimate is monotonic
C18_Monotonic ==
    est.stage = "estimated" =>
        (BigLeq(est.s1, est.s2) => BigLeq(est.t1, est.t2))

\* the part of C18 that holds below 2^53
C18_FloorQuarterBelowTwoTo53 ==
    (est.stage = "estimated" /\ est.s1.hi = 0) => est.t1 = DivFour(est.s1)

\* the important loop is at a record whose full estimate takes the running
\* total above limit, with the file count limit unset or not reached
ImportantOverflows(limit) ==
    /\ pc = "important"
    /\ i <= Len(ImportantFiles(pool))
    /\ config.max_files = None \/ Len(selected) < config.max_files
    /\ total_tokens + EstimateFileTokens(ImportantFiles(pool)[i]) > limit

\* the iteration includes the record iff compress_large_files is true, and
\* then adds a third of its estimate to the running total
IncludedIffCompressed ==
    LET f == ImportantFiles(pool)[i] IN
    IF config.compress_large_files
    THEN /\ selected' = Append(selected, f)
         /\ total_tokens' = total_tokens + (EstimateFileTokens(f) \div 3)
    ELSE /\ selected' = selected
         /\ total_tokens' = total_tokens

\* C19: with max_tokens set, an iteration of the important loop at a record
\* whose full estimate would take the running total above max_tokens includes
\* the record if and only if compress_large_files is true, and then adds
\* exactly the estimate div 3 to the running total.
C19_OverBudgetImportantCompressedOrSkipped ==
    [][ (config.max_tokens # None /\ ImportantOverflows(config.max_tokens))
        => IncludedIffCompressed ]_vars

\* C19 for a max_tokens that is not 0, where it holds
C19_WhenMaxTokensNotZero ==
    [][ (Truthy(config.max_tokens) /\ ImportantOverflows(config.max_tokens))
        => IncludedIffCompressed ]_vars

\* the records of fs taken in order from the running total tot, a record
\* being passed over when its estimate would take the total above limit and
\* the ones after it still being looked at
RECURSIVE SkipOnlyOverflowing(_, _, _)
SkipOnlyOverflowing(limit, tot, fs) ==
    IF fs = <<>> THEN <<>>
    ELSE LET file_tokens == EstimateFileTokens(Head(fs)) IN
         IF tot + file_tokens > limit
         THEN SkipOnlyOverflowing(limit, tot, Tail(fs))
         ELSE <<Head(fs)>>
              \o SkipOnlyOverflowing(limit, tot + file_tokens, Tail(fs))

\* the call returned under a token limit alone, with compression off
TokenLimitOnly ==
    /\ pc = "done"
    /\ ~config.compress_large_files
    /\ config.max_files = None
    /\ config.max_file_size = None

\* C20: with compress_large_files false and max_tokens set (and no other
\* limit), the important records of the result are those of the candidates
\* left after passing over each one that would overflow max_tokens, the later
\* ones that fit included; in normal and in explicit-list mode.
C20_OnlyOverflowingImportantSkipped ==
    (TokenLimitOnly /\ config.max_tokens # None)
        => ImportantFiles(selected)
               = SkipOnlyOverflowing(config.max_tokens, 0,
                                     ImportantFiles(pool))

\* C20 for a max_tokens that is not 0: still fails, in explicit-list mode
C20_WhenMaxTokensNotZero ==
    (TokenLimitOnly /\ Truthy(config.max_tokens))
        => ImportantFiles(selected)
               = SkipOnlyOverflowing(config.max_tokens, 0,
                                     ImportantFiles(pool))

\* C20 in normal mode for a max_tokens that is not 0, where it holds
C20_NormalModeWhenMaxTokensNotZero ==
    (TokenLimitOnly /\ Truthy(config.max_tokens)
                    /\ func = "_select_files")
        => ImportantFiles(selected)
               = SkipOnlyOverflowing(config.max_tokens, 0,
                                     ImportantFiles(pool))

\* the regular loop is at a record that is not excluded by its size and whose
\* estimate takes the running total above limit, with the file count limit
\* unset or not reached
RegularOverflows(limit) ==
    /\ pc = "regular"
    /\ i <= Len(RegularFiles(pool))
    /\ config.max_files = None \/ Len(selected) < config.max_files
    /\ \/ config.max_file_size = None
       \/ RegularFiles(pool)[i].size <= config.max_file_size
    /\ total_tokens + EstimateFileTokens(RegularFiles(pool)[i]) > limit

\* the iteration ends the walk: the record is not included and no later one
\* is looked at
WalkStops ==
    /\ pc' = "done"
    /\ selected' = selected
    /\ total_tokens' = total_tokens

\* C21: with max_tokens set, the regular loop ends at the first record (not
\* excluded by size) whose estimate would take the running total above
\* max_tokens: that record and every regular record after it are left out.
C21_RegularWalkStopsAtOverflow ==
    [][ (config.max_tokens # None /\ RegularOverflows(config.max_tokens))
        => WalkStops ]_vars

\* C21 for a max_tokens that is not 0, where it holds
C21_WhenMaxTokensNotZero ==
    [][ (Truthy(config.max_tokens) /\ RegularOverflows(config.max_tokens))
        => WalkStops ]_vars

\* the important loop is at a record larger than max_file_size, with the file
\* count limit unset or not reached
ImportantOversized ==
    /\ pc = "important"
    /\ i <= Len(ImportantFiles(pool))
    /\ config.max_files = None \/ Len(selected) < config.max_files
    /\ config.max_file_size # None
    /\ ImportantFiles(pool)[i].size > config.max_file_size

\* C22: with compress_large_files true, an iteration of the important loop at
\* a record larger than max_file_size includes the record and adds its
\* estimate div 3 to the running total, whether or not the full estimate fits
\* under max_tokens.
C22_OversizedImportantChargedAThird ==
    [][ (ImportantOversized /\ config.compress_large_files)
        => LET f == ImportantFiles(pool)[i] IN
           /\ selected' = Append(selected, f)
           /\ total_tokens' = total_tokens + (EstimateFileTokens(f) \div 3)
      ]_vars

\* the part of C22 that holds: the record is included
C22_OversizedImportantIncluded ==
    [][ (ImportantOversized /\ config.compress_large_files)
        => selected' = Append(selected, ImportantFiles(pool)[i]) ]_vars

\* the partition the loop at pc walks
Partition == IF pc = "important" THEN ImportantFiles(pool)
             ELSE RegularFiles(pool)

\* a loop is at a record larger than limit that is regular or meets
\* compress_large_files false, with the file count limit unset or not reached
OversizedNotCompressible(limit) ==
    /\ pc \in {"important", "regular"}
    /\ i <= Len(Partition)
    /\ config.max_files = None \/ Len(selected) < config.max_files
    /\ Partition[i].size > limit
    /\ pc = "regular" \/ ~config.compress_large_files

\* the iteration passes over the record and the loop goes on with the next
SkippedWalkGoesOn ==
    /\ selected' = selected
    /\ total_tokens' = total_tokens
    /\ pc' = pc
    /\ i' = i + 1

\* C23: with max_file_size set, an iteration at a record larger than
\* max_file_size that is regular, or that meets compress_large_files false,
\* does not select the record and does not end the loop: the next record of
\* the partition is looked at.
C23_OversizedSkippedWalkGoesOn ==
    [][ (config.max_file_size # None
         /\ OversizedNotCompressible(config.max_file_size))
        => SkippedWalkGoesOn ]_vars

\* C23 for a max_file_size that is not 0, where it holds
C23_WhenMaxFileSizeNotZero ==
    [][ (Truthy(config.max_file_size)
         /\ OversizedNotCompressible(config.max_file_size))
        => SkippedWalkGoesOn ]_vars

\* the sum of the full estimates of the records of sel
RECURSIVE FullEstimates(_)
FullEstimates(sel) ==
    IF sel = <<>> THEN 0
    ELSE EstimateFileTokens(Head(sel)) + FullEstimates(Tail(sel))

\* C24: the selection holds no record twice (the relative paths of the input
\* list are unique), also after an important record was included through the
\* compressed over-budget path.
C24_NoDuplicates ==
    \A a, b \in 1..Len(selected) : a # b => selected[a] # selected[b]

\* a call in normal mode returned two records or more, one of them charged a
\* third of its estimate
C24_Witness ==
    /\ pc = "done"
    /\ func = "_select_files"
    /\ config.compress_large_files
    /\ Truthy(config.max_tokens)
    /\ Len(selected) >= 2
    /\ total_tokens < FullEstimates(selected)

\* languages _remove_comments has a strategy of its own for
DedicatedLanguages ==
    {"python", "javascript", "typescript", "java", "c", "cpp", "csharp", "go",
     "rust", "ruby", "shell"}

\* C25: with include_comments false, the content of a file whose language is
\* 'unknown', or any other language without a strategy of its own, comes out
\* of the comment stripping unchanged.
C25_UnknownLanguageUnchanged ==
    (strip.stage = "stripped" /\ strip.language \notin DedicatedLanguages)
        => strip.result = strip.content

\* the languages handled by _remove_js_comments and _remove_cstyle_comments
BlockCommentLanguages ==
    {"javascript", "typescript", "java", "c", "cpp", "csharp", "go", "rust"}

\* plain code on one line: no comment mark, quote, blank or line break
IsCode(s) == \A k \in 1..Len(s) : s[k] = "a"

\* text of a comment that holds no comment mark
IsCommentText(s) == \A k \in 1..Len(s) : s[k] \in {"a", " ", "\n"}

\* the content is code, a block comment that opens on one line and closes on
\* a later one, and code: the code before the comment, and after it
CodeBefore(c) == Before(c, cc_open)
CodeAfter(c) == After(After(c, cc_open), cc_close)
SpansLines(c) ==
    /\ Contains(c, cc_open)
    /\ Contains(After(c, cc_open), cc_close)
    /\ IsCode(CodeBefore(c))
    /\ IsCode(CodeAfter(c))
    /\ IsCommentText(Before(After(c, cc_open), cc_close))
    /\ Contains(Before(After(c, cc_open), cc_close), <<"\n">>)

\* the content holds no comment and no string
NoComment(c) == \A k \in 1..Len(c) : c[k] \in {"a", " ", "\n"}

\* C30: for JavaScript/TypeScript and C-style languages, when a block comment
\* opens on one line and closes on a later line, the output is made of the
\* code before the opening mark and the code after the closing mark; and a
\* content without any comment comes out unchanged.
C30_OnlyCommentTextDeleted ==
    (strip.stage = "stripped" /\ strip.language \in BlockCommentLanguages)
        => /\ SpansLines(strip.content)
              => SelectSeq(strip.result, LAMBDA ch : ch # "\n")
                     = CodeBefore(strip.content) \o CodeAfter(strip.content)
           /\ NoComment(strip.content) => strip.result = strip.content

\* the part of C30 that holds: a content without any comment is unchanged
C30_NoCommentUnchanged ==
    (strip.stage = "stripped" /\ strip.language \in BlockCommentLanguages
                              /\ NoComment(strip.content))
        => strip.result = strip.content

\* the part of C30 that holds: the code after the closing mark is kept
C30_CodeAfterKept ==
    (strip.stage = "stripped" /\ strip.language \in BlockCommentLanguages
                              /\ SpansLines(strip.content))
        => SelectSeq(strip.result, LAMBDA ch : ch # "\n")
               = CodeAfter(strip.content)

\* one of the git invocations exited non-zero or ran into its timeout
GitInvocationFailed(env) ==
    \/ env.listing # "ok"
    \/ \E k \in 1..Len(env.commits) :
          env.commits[k].title # "ok" \/ env.commits[k].show # "ok"

\* C26: when one of the git invocations (hash listing, commit title, commit
\* show) exits non-zero or times out, the document generate returns has no
\* git log section.
C26_GitFailureOmitsSection ==
    (pc = "returned" /\ git.stage = "repo" /\ GitInvocationFailed(git.env))
        => \A k \in 1..Len(parts) : parts[k].kind # "git_logs"

\* the part of C26 that holds: a failing hash listing or a timeout of any
\* invocation leaves the section out
C26_ListingFailureOrTimeoutOmitsSection ==
    (/\ pc = "returned"
     /\ git.stage = "repo"
     /\ \/ git.env.listing # "ok"
        \/ \E k \in 1..Len(git.env.commits) :
              \/ git.env.commits[k].title = "timeout"
              \/ git.env.commits[k].show = "timeout")
        => \A k \in 1..Len(parts) : parts[k].kind # "git_logs"

\* Generate was triggered twice or more, the workers of the last two requests
\* have finished with a document and the main loop has run every callback
LastTwoFinished ==
    /\ gui.stage = "mainloop"
    /\ gui.requests >= 2
    /\ gui.workers[gui.requests].pc = "finished"
    /\ gui.workers[gui.requests - 1].pc = "finished"
    /\ \A w \in 1..gui.requests : gui.workers[w].pc \in {"finished", "failed"}
    /\ gui.after = <<>>

\* C27: once the workers of two Generate requests have finished and their
\* callbacks have run, the output area shows the document of the later
\* request, in whatever order the workers completed.
C27_OutputShowsLaterRequest ==
    LastTwoFinished => gui.output_text = gui.workers[gui.requests].markdown

\* what does hold: the output area shows the document of one of the requests
C27_OutputShowsSomeRequest ==
    LastTwoFinished
        => \E w \in 1..gui.requests :
              /\ gui.workers[w].pc = "finished"
              /\ gui.output_text = gui.workers[w].markdown

\* s is t with some elements left out
RECURSIVE IsSubsequence(_, _)
IsSubsequence(s, t) ==
    IF s = <<>> THEN TRUE
    ELSE IF t = <<>> THEN FALSE
    ELSE IF Head(s) = Head(t) THEN IsSubsequence(Tail(s), Tail(t))
    ELSE IsSubsequence(s, Tail(t))

\* configurations the selector is run under on the analyzer's list
ScanSelectConfigs ==
    { DefaultConfig,
      [DefaultConfig EXCEPT !.max_files = 2],
      [DefaultConfig EXCEPT !.max_tokens = 2, !.compress_large_files = FALSE],
      [DefaultConfig EXCEPT !.files_to_analyze = <<<<"k">>, <<"t", ".", "p", "y">>>>] }

\* C28: in the list analyze returns the priorities are non-increasing, every
\* important file has a priority of 7 or more and every other file one of 5
\* or less, every important file comes before every other file, and the
\* selection made from the list is a subsequence of it.
C28_AnalyzerOrderImportantFirst ==
    scan.stage = "analyzed" =>
        /\ \A a, b \in 1..Len(scan.files) :
              a < b => scan.files[a].priority >= scan.files[b].priority
        /\ \A a \in 1..Len(scan.files) :
              IF scan.files[a].is_important
              THEN scan.files[a].priority >= 7
              ELSE scan.files[a].priority <= 5
        /\ \A a, b \in 1..Len(scan.files) :
              (scan.files[a].is_important /\ ~scan.files[b].is_important)
                  => a < b
        /\ \A cfg \in ScanSelectConfigs :
              IsSubsequence(SelectFiles(cfg, scan.files), scan.files)

\* the walk met a file of priority 5 that is not important before an
\* important file of priority 7, and the sort moved the important one ahead
C28_Witness ==
    /\ scan.stage = "analyzed"
    /\ Len(scan.files) >= 2
    /\ ~GetFileInfo(scan.project_type, scan.walk[1]).is_important
    /\ GetFileInfo(scan.project_type, scan.walk[1]).priority = 5
    /\ scan.files[1].is_important
    /\ scan.files[1].priority = 7

\* the field of the generation configuration holds the option's value if the
\* option is given (given # None) and the configuration file's value if not
OptionOrFile(field, given) ==
    config[field] = IF given # None THEN given ELSE cli.file[field]

\* a --no-... option given clears its field; not given, the field keeps the
\* configuration file's value
TogglesOverride ==
    \A t \in Toggles :
        config[t] = IF t \in cli.argv.no_flags THEN FALSE ELSE cli.file[t]

\* --files given replaces files_to_analyze; not given, it keeps the
\* configuration file's value
FilesOverride ==
    config.files_to_analyze =
        IF cli.argv.files # <<>> THEN cli.argv.files
        ELSE cli.file.files_to_analyze

\* --gitlogs given sets gitlogs to its number (5 when bare); not given,
\* gitlogs keeps the configuration file's value
GitlogsOverride ==
    config.gitlogs =
        IF cli.argv.gitlogs.given
        THEN (IF cli.argv.gitlogs.n = None THEN 5 ELSE cli.argv.gitlogs.n)
        ELSE cli.file.gitlogs

\* C29: after cli.main has merged the command line into the configuration,
\* every generation option given on the command line has the command line's
\* value, and every generation option not given has the value loaded from
\* the configuration file.
C29_CommandLineOverridesConfigFile ==
    cli.stage = "configured" =>
        /\ OptionOrFile("max_tokens", cli.argv.max_tokens)
        /\ OptionOrFile("max_files", cli.argv.max_files)
        /\ OptionOrFile("max_file_size", cli.argv.max_file_size)
        /\ OptionOrFile("max_lines_per_file", cli.argv.max_lines_per_file)
        /\ OptionOrFile("compress_threshold_lines",
                        cli.argv.compress_threshold)
        /\ TogglesOverride
        /\ FilesOverride
        /\ GitlogsOverride

\* C29, the part that holds: every option but --compress-threshold behaves
\* as stated, --compress-threshold does when it is given, and --gitlogs does
\* unless it is given as 0.
C29_ExceptThresholdAndGitlogsZero ==
    cli.stage = "configured" =>
        /\ OptionOrFile("max_tokens", cli.argv.max_tokens)
        /\ OptionOrFile("max_files", cli.argv.max_files)
        /\ OptionOrFile("max_file_size", cli.argv.max_file_size)
        /\ OptionOrFile("max_lines_per_file", cli.argv.max_lines_per_file)
        /\ cli.argv.compress_threshold # None =>
              config.compress_threshold_lines = cli.argv.compress_threshold
        /\ TogglesOverride
        /\ FilesOverride
        /\ cli.argv.gitlogs # [given |-> TRUE, n |-> 0] => GitlogsOverride

\* C29: without --compress-threshold the threshold of the configuration
\* file is replaced by the parser's default of 200.
C29_ThresholdOfFileLost ==
    (cli.stage = "configured" /\ cli.argv.compress_threshold = None)
        => config.compress_threshold_lines = 200

============================================================================
